---- MODULE Spec2Model ----
(***************************************************************************)
(* The tool-calling orchestration loop of the incident-diagnosis service:  *)
(* DiagnosisAgent.diagnose (services/agent_service.py),                    *)
(* LangChainDiagnosisAgent.diagnose (services/langchain_agent_service.py), *)
(* the tool execution wrapper BaseTool.run (mcp_tools/base.py) and the     *)
(* HTTP endpoints that call diagnose (main.py).                            *)
(*                                                                         *)
(* One diagnose call is a coroutine.  It suspends at two places only: the  *)
(* await of the model call and the await of a tool execution.  Each action *)
(* below is the code that runs from one suspension to the next.            *)
(*                                                                         *)
(* Python values: a dict is a record (the empty dict is EmptyDict), a list *)
(* is a sequence, None is the token None, an exception is a record         *)
(* [type, text, about] (type, fixed part of the message, interpolated      *)
(* value).  Wall-clock time is a logical clock that ticks once per         *)
(* completed await.                                                        *)
(*                                                                         *)
(* Spec is the loop serving one request, with the tools reduced to what    *)
(* the loop reads of their results.  ToolSpec is a direct call of run on   *)
(* the Logs tool or the Metrics tool (mcp_tools/logs_tool.py,              *)
(* mcp_tools/metrics_tool.py, utils/time_utils.py) with the generators,    *)
(* the live provider paths and the results in full.  LiveSpec is Spec with *)
(* every await coming back (weak fairness of the steps after an await).    *)
(* ServerSpec is the server of main.py with two diagnose calls in          *)
(* progress at once, on either agent, and the tool listing endpoint.       *)
(***************************************************************************)
EXTENDS Integers, Sequences, FiniteSets, TLC

VARIABLES
    agent,            \* which implementation serves the request: "openai" | "langchain"
    info_enabled,     \* logger.isEnabledFor(INFO) in this process
    pc,               \* "start" | "llm" (awaiting the model) | "tool" (awaiting a tool) | "done"
    clock,            \* logical wall clock
    start_time,       \* diagnose: start_time
    messages,         \* diagnose: messages (the conversation)
    tool_executions,  \* diagnose: tool_executions (the trace)
    final_response,   \* diagnose: final_response
    iteration,        \* number of model consultations begun so far (loop index + 1)
    tool_calls,       \* tool_calls of the assistant message being served
    call_idx,         \* position in tool_calls of the call being awaited
    outcome,          \* how diagnose ended: [kind |-> "none" | "result" | "error", ...]
    http_response,    \* what the endpoint sent back
    responses,        \* history: every answer the oracle gave, in order
    executed,         \* history: the tool calls whose run was awaited, in order
    use_mock_data,    \* settings.use_mock_data
    gcp_client,       \* self.gcp_client of each tool instance: None or "client"
    self_name,        \* self.name of each tool instance
    tool_pc,          \* a direct call of a tool: "idle" | "returned"
    invocation,       \* the direct call made: [tool, kwargs, env], None before it
    execute_outcome,  \* history: what execute did inside that call
    run_result,       \* what run handed back to the caller, None before it
    requests,         \* the server: the locals of each diagnose call in progress
    tool_listing      \* the server: the last answer of GET /api/v1/tools, empty before

loop_vars == <<agent, info_enabled, pc, clock, start_time, messages, tool_executions,
               final_response, iteration, tool_calls, call_idx, outcome,
               http_response, responses, executed>>

tool_vars == <<use_mock_data, gcp_client, self_name, tool_pc, invocation, execute_outcome,
               run_result>>

server_vars == <<requests, tool_listing>>

vars == <<loop_vars, tool_vars, server_vars>>

(***************************************************************************)
(* Bounds of the model.                                                    *)
(***************************************************************************)
MaxCallsPerTurn == 2
MaxTotalCalls == 5

(***************************************************************************)
(* Python values.                                                          *)
(***************************************************************************)
None == "<None>"
EmptyDict == [k \in {} |-> 0]
Get(d, key, default) == IF key \in DOMAIN d THEN d[key] ELSE default

Exception(type, text, about) == [type |-> type, text |-> text, about |-> about]
NoError == [type |-> "none"]

\* str(e): the message of an exception; the type is not part of it
str(e) == [f \in DOMAIN e \ {"type"} |-> e[f]]

(***************************************************************************)
(* utils/time_utils.py                                                     *)
(***************************************************************************)
\* a table with a seventh token
TIME_RANGE_MINUTES_with_10m ==
    [t \in {"5m", "10m", "15m", "30m", "1h", "3h", "24h"} |->
        CASE t = "5m" -> 5
          [] t = "10m" -> 10
          [] t = "15m" -> 15
          [] t = "30m" -> 30
          [] t = "1h" -> 60
          [] t = "3h" -> 180
          [] t = "24h" -> 1440]

TIME_RANGE_MINUTES ==
    [t \in {"5m", "15m", "30m", "1h", "3h", "24h"} |->
        CASE t = "5m" -> 5
          [] t = "15m" -> 15
          [] t = "30m" -> 30
          [] t = "1h" -> 60
          [] t = "3h" -> 180
          [] t = "24h" -> 1440]

\* list(TIME_RANGE_MINUTES.keys()): the keys in insertion order
TIME_RANGE_KEYS == <<"5m", "15m", "30m", "1h", "3h", "24h">>

\* ValueError(f"Invalid time_range: '{time_range}'. Valid options: {list(...)}")
InvalidTimeRange(time_range) ==
    [type |-> "ValueError", text |-> "Invalid time_range", about |-> time_range,
     valid_options |-> TIME_RANGE_KEYS]

\* a lookup that falls back to 15 minutes: TIME_RANGE_MINUTES.get(time_range, 15)
parse_time_range_default_15m(time_range) ==
    IF time_range \notin DOMAIN TIME_RANGE_MINUTES
    THEN [ok |-> TRUE, minutes |-> 15]
    ELSE [ok |-> TRUE, minutes |-> TIME_RANGE_MINUTES[time_range]]

\* parse_time_range: [ok, minutes] or [ok, error]
parse_time_range(time_range) ==
    IF time_range \notin DOMAIN TIME_RANGE_MINUTES
    THEN [ok |-> FALSE, error |-> InvalidTimeRange(time_range)]
    ELSE [ok |-> TRUE, minutes |-> TIME_RANGE_MINUTES[time_range]]

(***************************************************************************)
(* The request (main.py hands query, service_name, time_range to diagnose).*)
(***************************************************************************)
Request ==
    [query |-> "Why is the checkout service slow?",
     service_name |-> "checkout-service",
     time_range |-> "15m"]

(***************************************************************************)
(* The registry and the tools.                                             *)
(***************************************************************************)
tools == {"query_logs", "query_metrics"}

\* keys chosen by a comparison that ignores letter case
MetricKeys_ignoring_case(metric_type) ==
    (IF metric_type \in {"cpu", "CPU", "all"} THEN {"cpu_usage_percent"} ELSE {}) \cup
    (IF metric_type \in {"memory", "all"} THEN {"memory_usage_percent"} ELSE {}) \cup
    (IF metric_type \in {"latency", "all"} THEN {"response_time_ms"} ELSE {}) \cup
    (IF metric_type \in {"error_rate", "all"} THEN {"error_rate_percent"} ELSE {})

\* MetricsQueryTool._generate_mock_metrics: the keys of the metrics mapping.
MetricKeys(metric_type) ==
    (IF metric_type \in {"cpu", "all"} THEN {"cpu_usage_percent"} ELSE {}) \cup
    (IF metric_type \in {"memory", "all"} THEN {"memory_usage_percent"} ELSE {}) \cup
    (IF metric_type \in {"latency", "all"} THEN {"response_time_ms"} ELSE {}) \cup
    (IF metric_type \in {"error_rate", "all"} THEN {"error_rate_percent"} ELSE {})

Min(a, b) == IF a <= b THEN a ELSE b
Max(a, b) == IF a >= b THEN a ELSE b

\* LogsQueryTool.execute / MetricsQueryTool.execute with the mock provider
\* (settings.use_mock_data defaults to True): the window is resolved first,
\* an unknown token raises; otherwise the result mapping is produced.  The
\* random draw of the number of log entries, random.randint(10, 50), is taken
\* at its lower end here; series are kept as their keys.
execute(tool_name, kwargs) ==
    LET time_range == Get(kwargs, "time_range", "15m")
        window == parse_time_range(time_range)
    IN
    IF ~window.ok
    THEN [raised |-> TRUE, error |-> window.error]
    ELSE IF tool_name = "query_logs"
    THEN [raised |-> FALSE,
          value |-> [total_logs |-> Max(0, Min(10, Get(kwargs, "limit", 100))),
                     time_range |-> time_range,
                     service |-> Get(kwargs, "service_name", "all")]]
    ELSE [raised |-> FALSE,
          value |-> [service |-> Get(kwargs, "service_name", "all"),
                     time_range |-> time_range,
                     metric_type |-> Get(kwargs, "metric_type", "all"),
                     data_points |-> window.minutes,
                     metrics |-> MetricKeys(Get(kwargs, "metric_type", "all"))]]

\* a wrapper that handles ValueError only: any other exception leaves run
run_envelope_value_error_only(r, t0, t1) ==
    IF r.raised /\ r.error.type # "ValueError"
    THEN [raised |-> TRUE, error |-> r.error]
    ELSE IF r.raised
    THEN [success |-> FALSE, error |-> str(r.error),
          execution_time_ms |-> t1 - t0, timestamp |-> t1]
    ELSE [success |-> TRUE, data |-> r.value,
          execution_time_ms |-> t1 - t0, timestamp |-> t1]

\* a wrapper whose failed result carries an empty data as well
run_envelope_data_on_failure(r, t0, t1) ==
    IF r.raised
    THEN [success |-> FALSE, error |-> str(r.error), data |-> None,
          execution_time_ms |-> t1 - t0, timestamp |-> t1]
    ELSE [success |-> TRUE, data |-> r.value,
          execution_time_ms |-> t1 - t0, timestamp |-> t1]

\* BaseTool.run, the try statement: r is what the awaited execute did; t0 and
\* t1 are the clock readings before and after the work.
run_envelope(r, t0, t1) ==
    IF r.raised
    THEN [success |-> FALSE, error |-> str(r.error),
          execution_time_ms |-> t1 - t0, timestamp |-> t1]
    ELSE [success |-> TRUE, data |-> r.value,
          execution_time_ms |-> t1 - t0, timestamp |-> t1]

\* BaseTool.run as the loop calls it
run(tool_name, kwargs, t0, t1) == run_envelope(execute(tool_name, kwargs), t0, t1)

(***************************************************************************)
(* mcp_tools/logs_tool.py and mcp_tools/metrics_tool.py in full, for a     *)
(* direct call of run on a tool instance.                                  *)
(*                                                                         *)
(* A timestamp is a whole number of minutes relative to the instant of the *)
(* call (0 is now, -3 is three minutes ago).  A metric value is a whole    *)
(* number of hundredths, so round(value, 2) changes nothing.  Every random *)
(* draw of the generators is an input of the operator that consumes it: a  *)
(* draw is a record [randint, seed], randint being the value of            *)
(* random.randint(10, 50) and seed selecting one sequence of the per-entry *)
(* draws.  What the live provider does is an input as well.                *)
(***************************************************************************)
\* s.lower() on the severity tokens
lower(s) ==
    CASE s \in {"ERROR", "Error"} -> "error"
      [] s \in {"WARNING", "Warning"} -> "warning"
      [] s \in {"INFO", "Info"} -> "info"
      [] s \in {"CRITICAL", "Critical"} -> "critical"
      [] s = "ALL" -> "all"
      [] OTHER -> s

\* s[:n] of a list
Prefix(s, n) ==
    IF n >= 0 THEN SubSeq(s, 1, Min(n, Len(s)))
    ELSE SubSeq(s, 1, Max(0, Len(s) + n))

\* the place of every element of a list with timestamps ts after a stable
\* sort, latest first: behind the later ones and the equal ones before it
RanksLatestFirst(ts) ==
    [i \in DOMAIN ts |->
        Cardinality({j \in DOMAIN ts : ts[j] > ts[i] \/ (ts[j] = ts[i] /\ j < i)}) + 1]

\* the list with element i moved to place rank[i]
Permuted(s, rank) ==
    [k \in DOMAIN s |-> s[CHOOSE i \in DOMAIN s : rank[i] = k]]

\* the list left in generation order
SortedLatestFirst_unsorted(s) == s

\* list.sort(key=timestamp, reverse=True): a stable sort, latest first
SortedLatestFirst(s) ==
    CHOOSE sorted \in
        {Permuted(v, rank) :
            v \in {s},
            rank \in {RanksLatestFirst([i \in 1..Len(s) |-> s[i].timestamp])}} : TRUE

\* execute called with a keyword the signature does not have
UnexpectedKeyword(kwargs, params) ==
    Exception("TypeError", "got an unexpected keyword argument",
              CHOOSE k \in DOMAIN kwargs \ params : TRUE)

\* _generate_mock_logs: log_templates
log_templates ==
    <<[severity |-> "ERROR", service |-> "checkout-service",
       message |-> "Database connection pool exhausted"],
      [severity |-> "WARNING", service |-> "checkout-service",
       message |-> "High latency detected"],
      [severity |-> "ERROR", service |-> "payment-service",
       message |-> "Failed to acquire database connection"],
      [severity |-> "INFO", service |-> "payment-service",
       message |-> "Successfully processed payment"],
      [severity |-> "CRITICAL", service |-> "checkout-service",
       message |-> "Out of memory"]>>

\* _generate_mock_logs: filtered_templates
filtered_templates(service_name, severity) ==
    LET keep(t) == /\ (service_name = "all" \/ t.service = service_name)
                   /\ (severity = "all" \/ lower(t.severity) = lower(severity))
    IN SelectSeq(log_templates, keep)

\* _generate_mock_logs: the entry appended in pass i of the loop (i from 1)
MockLogEntry(service_name, severity, minutes, draw, i) ==
    LET filtered == filtered_templates(service_name, severity)
        template == IF filtered # <<>>
                    THEN filtered[((draw.seed + i) % Len(filtered)) + 1]
                    ELSE log_templates[1]
        minutes_ago == ((draw.seed + 1) * i * 7) % (minutes + 1)
    IN [timestamp |-> 0 - minutes_ago,
        severity |-> template.severity,
        service |-> template.service,
        message |-> template.message,
        trace_id |-> 1000 + ((draw.seed * 31 + i * 17) % 9000)]

\* a generator whose number of entries ignores limit: only the final slice
\* applies it
_generate_mock_logs_unbounded_count(service_name, time_range, severity, limit, draw) ==
    LET window == parse_time_range(time_range) IN
    IF ~window.ok
    THEN [raised |-> TRUE, error |-> window.error]
    ELSE LET num_logs == draw.randint
             mock_logs == [i \in 1..Max(0, num_logs) |->
                              MockLogEntry(service_name, severity, window.minutes,
                                           draw, i)]
         IN [raised |-> FALSE,
             value |-> [total_logs |-> Len(mock_logs),
                        time_range |-> time_range,
                        service |-> service_name,
                        logs |-> Prefix(SortedLatestFirst(mock_logs), limit)]]

\* a generator that reports the number drawn, not the number generated
_generate_mock_logs_reporting_the_draw(service_name, time_range, severity, limit, draw) ==
    LET window == parse_time_range(time_range) IN
    IF ~window.ok
    THEN [raised |-> TRUE, error |-> window.error]
    ELSE LET num_logs == Min(draw.randint, limit)
             mock_logs == [i \in 1..Max(0, num_logs) |->
                              MockLogEntry(service_name, severity, window.minutes,
                                           draw, i)]
         IN [raised |-> FALSE,
             value |-> [total_logs |-> draw.randint,
                        time_range |-> time_range,
                        service |-> service_name,
                        logs |-> Prefix(SortedLatestFirst(mock_logs), limit)]]

\* LogsQueryTool._generate_mock_logs
_generate_mock_logs(service_name, time_range, severity, limit, draw) ==
    LET window == parse_time_range(time_range) IN
    IF ~window.ok
    THEN [raised |-> TRUE, error |-> window.error]
    ELSE LET num_logs == Min(draw.randint, limit)
             mock_logs == [i \in 1..Max(0, num_logs) |->
                              MockLogEntry(service_name, severity, window.minutes,
                                           draw, i)]
         IN [raised |-> FALSE,
             value |-> [total_logs |-> Len(mock_logs),
                        time_range |-> time_range,
                        service |-> service_name,
                        logs |-> Prefix(SortedLatestFirst(mock_logs), limit)]]

\* _query_gcp_logs: severity_map.get(severity.lower(), "INFO")
gcp_severity(severity) ==
    CASE lower(severity) = "info" -> "INFO"
      [] lower(severity) = "warning" -> "WARNING"
      [] lower(severity) = "error" -> "ERROR"
      [] lower(severity) = "critical" -> "CRITICAL"
      [] OTHER -> "INFO"

\* LogsQueryTool._query_gcp_logs; provider is what list_entries did: it
\* raised, or it yielded a list of entries
_query_gcp_logs(service_name, time_range, severity, limit, provider) ==
    LET window == parse_time_range(time_range) IN
    IF ~window.ok
    THEN [raised |-> TRUE, error |-> window.error]
    ELSE IF provider.raised
    THEN [raised |-> TRUE,
          error |-> Exception("RuntimeError", "Failed to query GCP logs",
                              str(provider.error))]
    ELSE LET logs == [i \in 1..Len(provider.entries) |->
                        LET entry == provider.entries[i] IN
                        [timestamp |-> entry.timestamp,
                         severity |-> IF entry.severity = None THEN "INFO"
                                      ELSE entry.severity,
                         service |-> service_name,
                         message |-> entry.payload,
                         trace_id |-> IF entry.trace = None THEN "N/A"
                                      ELSE entry.trace]]
         IN [raised |-> FALSE,
             value |-> [total_logs |-> Len(logs),
                        time_range |-> time_range,
                        service |-> service_name,
                        logs |-> logs]]

\* the parameters of LogsQueryTool.execute and their defaults
LogsQueryTool_signature ==
    [service_name |-> "all", time_range |-> "15m", severity |-> "all", limit |-> 100]

\* LogsQueryTool.execute; env holds the draws and the provider's behaviour
LogsQueryTool_execute(kwargs, env) ==
    IF DOMAIN kwargs \ DOMAIN LogsQueryTool_signature # {}
    THEN [raised |-> TRUE,
          error |-> UnexpectedKeyword(kwargs, DOMAIN LogsQueryTool_signature)]
    ELSE LET service_name ==
                 Get(kwargs, "service_name", LogsQueryTool_signature.service_name)
             time_range ==
                 Get(kwargs, "time_range", LogsQueryTool_signature.time_range)
             severity == Get(kwargs, "severity", LogsQueryTool_signature.severity)
             limit == Get(kwargs, "limit", LogsQueryTool_signature.limit)
         IN IF use_mock_data \/ gcp_client.query_logs = None
            THEN _generate_mock_logs(service_name, time_range, severity, limit,
                                     env.draw)
            ELSE _query_gcp_logs(service_name, time_range, severity, limit,
                                 env.provider)

\* _generate_timeseries without its base and without its clamp: a series of
\* bare deviations
timeseries_value_deviation_only(base, variance, uniform, spike, spike_magnitude) ==
    uniform * (IF spike THEN spike_magnitude ELSE 1)

\* _generate_timeseries, one pass of the loop: uniform is the value of
\* random.uniform(-variance, variance), spike tells whether random.random()
\* fell below spike_prob
timeseries_value(base, variance, uniform, spike, spike_magnitude) ==
    Max(0, (base + uniform) * (IF spike THEN spike_magnitude ELSE 1))

\* MetricsQueryTool._generate_timeseries; pass i (from 0) draws its deviation
\* from the two ends and the middle of the interval
_generate_timeseries(num_points, base, variance, spike_magnitude, draw) ==
    [k \in 1..num_points |->
        LET i == k - 1
            uniform == (((draw.seed + i) % 3) - 1) * variance
            spike == (draw.seed + i) % 4 = 0
        IN [timestamp |-> 0 - (num_points - i),
            value |-> timeseries_value(base, variance, uniform, spike,
                                       spike_magnitude)]]

\* _query_gcp_metrics: the keys of metric_types_map
MetricTypes == {"cpu", "memory", "latency", "error_rate"}

\* MetricsQueryTool._get_metric_key
_get_metric_key(metric_type) ==
    CASE metric_type = "cpu" -> "cpu_usage_percent"
      [] metric_type = "memory" -> "memory_usage_percent"
      [] metric_type = "latency" -> "response_time_ms"
      [] metric_type = "error_rate" -> "error_rate_percent"
      [] OTHER -> "unrecognized_value"

\* _generate_mock_metrics: the series stored under one key
MockSeries(key, num_points, draw) ==
    CASE key = "cpu_usage_percent" ->
            _generate_timeseries(num_points, 6000, 2000, 2, draw)
      [] key = "memory_usage_percent" ->
            _generate_timeseries(num_points, 7500, 1000, 2, draw)
      [] key = "response_time_ms" ->
            _generate_timeseries(num_points, 25000, 10000, 3, draw)
      [] key = "error_rate_percent" ->
            _generate_timeseries(num_points, 50, 30, 10, draw)

\* MetricsQueryTool._generate_mock_metrics
_generate_mock_metrics(service_name, metric_type, time_range, draw) ==
    LET window == parse_time_range(time_range) IN
    IF ~window.ok
    THEN [raised |-> TRUE, error |-> window.error]
    ELSE LET num_points == window.minutes IN
         [raised |-> FALSE,
          value |-> [service |-> service_name,
                     time_range |-> time_range,
                     metric_type |-> metric_type,
                     data_points |-> num_points,
                     metrics |-> [key \in MetricKeys(metric_type) |->
                                     MockSeries(key, num_points, draw)]]]

\* MetricsQueryTool._extract_metric_value: raw is the point's value as the
\* provider typed it
_extract_metric_value(raw, metric_type) ==
    IF raw.kind \notin {"double_value", "int64_value", "distribution_value"}
    THEN 0
    ELSE IF metric_type \in {"cpu", "memory"} THEN raw.val * 100
    ELSE IF metric_type = "latency" THEN raw.val * 1000
    ELSE raw.val

\* the place of every element of a list with timestamps ts after a stable
\* sort, oldest first
RanksOldestFirst(ts) ==
    [i \in DOMAIN ts |->
        Cardinality({j \in DOMAIN ts : ts[j] < ts[i] \/ (ts[j] = ts[i] /\ j < i)}) + 1]

\* list.sort(key=timestamp): a stable sort, oldest first
SortedOldestFirst(s) ==
    CHOOSE sorted \in
        {Permuted(v, rank) :
            v \in {s},
            rank \in {RanksOldestFirst([i \in 1..Len(s) |-> s[i].timestamp])}} : TRUE

\* s[-n:] if len(s) > n else s, for n > 0
LastN(s, n) == IF Len(s) > n THEN SubSeq(s, Len(s) - n + 1, Len(s)) ELSE s

\* _query_gcp_metrics: the series kept for one queried metric type
LiveSeries(points, m_type, minutes) ==
    LET data_points == [i \in 1..Len(points) |->
                           [timestamp |-> points[i].timestamp,
                            value |-> _extract_metric_value(points[i].value, m_type)]]
    IN LastN(SortedOldestFirst(data_points), minutes)

RECURSIVE SumOfLengths(_, _)
\* total_points += len(data_points), over the keys of the mapping
SumOfLengths(mapping, keys) ==
    IF keys = {} THEN 0
    ELSE LET key == CHOOSE k \in keys : TRUE
         IN Len(mapping[key]) + SumOfLengths(mapping, keys \ {key})

\* MetricsQueryTool._query_gcp_metrics; provider is what list_time_series
\* did: it raised, or it yielded a list of points for every queried type
_query_gcp_metrics(service_name, metric_type, time_range, draw, provider) ==
    LET window == parse_time_range(time_range) IN
    IF ~window.ok
    THEN [raised |-> TRUE, error |-> window.error]
    ELSE LET query_metrics == IF metric_type = "all" THEN MetricTypes
                              ELSE IF metric_type \in MetricTypes
                              THEN {metric_type}
                              ELSE {}
         IN IF query_metrics = {} \/ provider.raised
            THEN _generate_mock_metrics(service_name, metric_type, time_range, draw)
            ELSE LET queried == {_get_metric_key(m) : m \in query_metrics}
                     type_of(key) == CHOOSE m \in query_metrics :
                                        _get_metric_key(m) = key
                     metrics_data == [key \in queried |->
                                         LiveSeries(provider.points, type_of(key),
                                                    window.minutes)]
                 IN [raised |-> FALSE,
                     value |-> [service |-> service_name,
                                time_range |-> time_range,
                                metric_type |-> metric_type,
                                data_points |-> SumOfLengths(metrics_data, queried),
                                metrics |-> metrics_data]]

\* the parameters of MetricsQueryTool.execute and their defaults
MetricsQueryTool_signature ==
    [service_name |-> "all", metric_type |-> "all", time_range |-> "15m"]

\* MetricsQueryTool.execute
MetricsQueryTool_execute(kwargs, env) ==
    IF DOMAIN kwargs \ DOMAIN MetricsQueryTool_signature # {}
    THEN [raised |-> TRUE,
          error |-> UnexpectedKeyword(kwargs, DOMAIN MetricsQueryTool_signature)]
    ELSE LET service_name ==
                 Get(kwargs, "service_name", MetricsQueryTool_signature.service_name)
             metric_type ==
                 Get(kwargs, "metric_type", MetricsQueryTool_signature.metric_type)
             time_range ==
                 Get(kwargs, "time_range", MetricsQueryTool_signature.time_range)
         IN IF use_mock_data \/ gcp_client.query_metrics = None
            THEN _generate_mock_metrics(service_name, metric_type, time_range,
                                        env.draw)
            ELSE _query_gcp_metrics(service_name, metric_type, time_range,
                                    env.draw, env.provider)

(***************************************************************************)
(* The oracle (the language model).  One answer is either a failure of the *)
(* call or a message with a text and a list of tool-call requests.  A      *)
(* request names a tool and carries its arguments: as a JSON text in the   *)
(* OpenAI client (valid_json tells whether json.loads accepts it), as a    *)
(* parsed mapping in LangChain.                                            *)
(***************************************************************************)
Texts == {"", "Root cause: database connection pool exhausted"}

CallSpecs ==
    {[name |-> "query_logs", valid_json |-> TRUE, args |-> [time_range |-> "15m"]],
     [name |-> "query_metrics", valid_json |-> TRUE, args |-> EmptyDict],
     [name |-> "query_logs", valid_json |-> TRUE, args |-> [time_range |-> "10m"]],
     [name |-> "query_traces", valid_json |-> TRUE, args |-> EmptyDict],
     [name |-> "query_logs", valid_json |-> FALSE, args |-> EmptyDict]}

\* What the client library of each agent can hand over.
OracleCallSpecs(a) ==
    IF a = "langchain" THEN {c \in CallSpecs : c.valid_json} ELSE CallSpecs
OracleTexts(a) ==
    IF a = "langchain" THEN Texts ELSE Texts \cup {None}

CallLists(a) ==
    UNION {[1..k -> OracleCallSpecs(a)] : k \in 1..MaxCallsPerTurn}

RECURSIVE Requested(_)
\* every tool call requested in a history of oracle answers, in order
Requested(rs) ==
    IF rs = <<>> THEN <<>>
    ELSE Requested(SubSeq(rs, 1, Len(rs) - 1)) \o
         (IF rs[Len(rs)].kind = "message" THEN rs[Len(rs)].tool_calls ELSE <<>>)

(***************************************************************************)
(* diagnose: the pieces between the awaits.                                *)
(***************************************************************************)
\* a loop bound that is one too large
max_iterations_plus_one == 5 + 1

max_iterations == 5

SENTINEL == "Analysis incomplete: maximum tool call iterations reached."

\* _summarize_tool_result
_summarize_tool_result(tool_name, result) ==
    IF ~Get(result, "success", FALSE)
    THEN [fmt |-> "Error: {}", error |-> Get(result, "error", "Unknown error")]
    ELSE LET data == Get(result, "data", EmptyDict) IN
         IF tool_name = "query_logs"
         THEN [fmt |-> "Found {} logs", total_logs |-> Get(data, "total_logs", 0)]
         ELSE IF tool_name = "query_metrics"
         THEN [fmt |-> "Retrieved {} metric types",
               metrics_count |-> Cardinality(Get(data, "metrics", {}))]
         ELSE [fmt |-> "Executed successfully"]

\* a count that takes the number of metric types for a metrics result
_count_data_points_metric_types(result) ==
    IF ~Get(result, "success", FALSE) THEN 0
    ELSE LET data == Get(result, "data", EmptyDict) IN
         IF "total_logs" \in DOMAIN data THEN Get(data, "total_logs", 0)
         ELSE IF "metrics" \in DOMAIN data THEN Cardinality(Get(data, "metrics", {}))
         ELSE 0

\* _count_data_points
_count_data_points(result) ==
    IF ~Get(result, "success", FALSE) THEN 0
    ELSE LET data == Get(result, "data", EmptyDict) IN
         IF "total_logs" \in DOMAIN data THEN Get(data, "total_logs", 0)
         ELSE IF "data_points" \in DOMAIN data THEN Get(data, "data_points", 0)
         ELSE 0

\* the record appended to tool_executions for one executed call
ExecutionRecord(tool_name, result) ==
    [tool_name |-> tool_name,
     execution_time_ms |-> Get(result, "execution_time_ms", 0),
     result_summary |-> _summarize_tool_result(tool_name, result),
     data_points |-> _count_data_points(result)]

\* a trace that grows at the front
RecordExecution_prepend(trace, tool_name, result) ==
    <<ExecutionRecord(tool_name, result)>> \o trace

\* a record that is written only after a further suspension
RecordExecution_after_a_wait(trace, tool_name, result) == trace

\* tool_executions.append({...})
RecordExecution(trace, tool_name, result) ==
    Append(trace, ExecutionRecord(tool_name, result))

\* json.dumps(obj): the JSON text of obj, kept as the value it encodes
json_dumps(obj) == [json |-> obj]

\* a tool-result message that tells the model the error text of a failure
ToolMessage_with_error_text(call, result) ==
    [role |-> "tool",
     tool_call_id |-> call.id,
     content |-> json_dumps(IF Get(result, "success", FALSE)
                            THEN Get(result, "data", EmptyDict)
                            ELSE Get(result, "error", EmptyDict))]

\* the tool-result message appended to the conversation (the dict of the
\* OpenAI agent carries the function name as well, which nothing reads)
ToolMessage(call, result) ==
    [role |-> "tool",
     tool_call_id |-> call.id,
     content |-> json_dumps(Get(result, "data", EmptyDict))]

\* a conversation cut back to its seed before each tool result is added
AppendToolMessage_compacting(msgs, call, result) ==
    <<msgs[1], msgs[2], ToolMessage(call, result)>>

\* messages.append(<tool message>)
AppendToolMessage(msgs, call, result) == Append(msgs, ToolMessage(call, result))

\* args_schema of the LangChain tools (LogsQueryInput: limit ge=1, le=1000):
\* tool.ainvoke validates the input before the tool function is called
ValidToolInput(tool_name, args) ==
    (tool_name = "query_logs" /\ "limit" \in DOMAIN args)
        => (args.limit >= 1 /\ args.limit <= 1000)

\* What the code between the head of the for-loop body and the await of the
\* tool raises for one call, if anything.
DispatchErrorOf(a, call) ==
    IF a = "openai"
    THEN IF ~call.valid_json
         THEN Exception("JSONDecodeError", "Expecting value", call.name)
         ELSE IF info_enabled
         THEN Exception("KeyError", "Attempt to overwrite 'args' in LogRecord", "args")
         ELSE IF call.name \notin tools
         THEN Exception("ValueError", "Unknown tool", call.name)
         ELSE NoError
    ELSE IF call.name \notin tools
         THEN Exception("ValueError", "Unknown tool", call.name)
         ELSE IF ~ValidToolInput(call.name, call.args)
         THEN Exception("ValidationError", "1 validation error for LogsQueryInput",
                        "limit")
         ELSE NoError

\* the same for the agent that serves the single request
DispatchError(call) == DispatchErrorOf(agent, call)

\* the text reported as the analysis
FinalAnalysis(final) == IF final = None THEN SENTINEL ELSE final

\* a result that reports the exhausted loop as "partial"
DiagnosisResult_partial(final, trace, now) ==
    [request_id |-> "req_1",
     status |-> IF final = None THEN "partial" ELSE "success",
     query |-> Request.query,
     analysis |-> FinalAnalysis(final),
     tools_executed |-> trace,
     processing_time_ms |-> now - start_time,
     timestamp |-> now]

\* an assembly that restamps the records with the time of assembly
DiagnosisResultOf_restamped(a, rid, query, start, final, trace, now) ==
    [request_id |-> rid,
     status |-> "success",
     query |-> query,
     analysis |-> FinalAnalysis(final),
     tools_executed |-> [i \in 1..Len(trace) |->
                            [trace[i] EXCEPT !.execution_time_ms = now - start]],
     processing_time_ms |-> now - start,
     timestamp |-> now]

\* the mapping diagnose returns, for agent a serving request rid that began
\* at start
DiagnosisResultOf(a, rid, query, start, final, trace, now) ==
    LET base == [request_id |-> rid,
                 status |-> "success",
                 query |-> query,
                 analysis |-> FinalAnalysis(final),
                 tools_executed |-> trace,
                 processing_time_ms |-> now - start,
                 timestamp |-> now]
    IN IF a = "langchain"
       THEN [k \in DOMAIN base \cup {"framework"} |->
                IF k = "framework" THEN "langchain" ELSE base[k]]
       ELSE base

\* the mapping diagnose returns to the single request
DiagnosisResult(final, trace, now) ==
    DiagnosisResultOf(agent, "req_1", Request.query, start_time, final, trace, now)

(***************************************************************************)
(* main.py: the endpoints around diagnose.                                 *)
(***************************************************************************)
\* the fields of DiagnosisResponse (models/response.py), the response_model
ResponseFields ==
    {"request_id", "status", "query", "analysis", "tools_executed",
     "processing_time_ms", "timestamp"}

\* return result: FastAPI serialises it through the response_model
HttpOnResult(result) ==
    [status_code |-> 200,
     body |-> [k \in DOMAIN result \cap ResponseFields |-> result[k]]]

\* an error response that leaks the records gathered so far
HttpOnError_partial(e) ==
    [status_code |-> 500, body |-> [detail |-> str(e), tools_executed |-> tool_executions]]

\* except Exception as e: raise HTTPException(status_code=500, detail=str(e))
HttpOnError(e) ==
    [status_code |-> 500, body |-> [detail |-> str(e)]]

(***************************************************************************)
(* How a diagnose call proceeds or ends.                                   *)
(***************************************************************************)
\* an exception that is held back: the call neither returns nor raises
Raise_held_back(e) ==
    /\ pc' = "held"
    /\ UNCHANGED <<outcome, http_response>>

\* an exception leaves diagnose and reaches the endpoint's handler
Raise(e) ==
    /\ pc' = "done"
    /\ outcome' = [kind |-> "error", error |-> e]
    /\ http_response' = HttpOnError(e)

\* the code after the loop: the result is assembled and returned
Return(final, trace, now) ==
    /\ pc' = "done"
    /\ outcome' = [kind |-> "result", result |-> DiagnosisResult(final, trace, now)]
    /\ http_response' = HttpOnResult(DiagnosisResult(final, trace, now))

\* a loop that serves the calls of a turn from the last one
Dispatch_from_the_end(calls, k) ==
    IF DispatchError(calls[Len(calls) + 1 - k]) # NoError
    THEN /\ Raise(DispatchError(calls[Len(calls) + 1 - k]))
         /\ UNCHANGED <<call_idx, executed>>
    ELSE /\ pc' = "tool"
         /\ call_idx' = Len(calls) + 1 - k
         /\ executed' = Append(executed, calls[Len(calls) + 1 - k])
         /\ UNCHANGED <<outcome, http_response>>

\* the head of the for-loop over tool_calls for call number k, up to the
\* await of the tool (or the exception raised before it)
Dispatch(calls, k) ==
    IF DispatchError(calls[k]) # NoError
    THEN /\ Raise(DispatchError(calls[k]))
         /\ UNCHANGED <<call_idx, executed>>
    ELSE /\ pc' = "tool"
         /\ call_idx' = k
         /\ executed' = Append(executed, calls[k])
         /\ UNCHANGED <<outcome, http_response>>

\* the request-level failure of the model call
OracleFailure == Exception("APIError", "model call failed", "oracle")

(***************************************************************************)
(* The server (main.py): two module-level agents, one per endpoint, serve  *)
(* every request; each POST runs its own diagnose call.                    *)
(***************************************************************************)
\* the diagnose calls followed: two concurrent POSTs
RequestIds == {"req_1", "req_2"}

\* the query each of them carries
Queries ==
    [req_1 |-> "Why is the checkout service slow?",
     req_2 |-> "Is payment-service dropping requests?"]

\* the service_name and time_range each of them carries (IncidentQuery:
\* service_name is optional)
Contexts ==
    [req_1 |-> [service_name |-> "checkout-service", time_range |-> "24h"],
     req_2 |-> [service_name |-> None, time_range |-> "1h"]]

\* diagnose: the Context lines of the system prompt
system_prompt(service_name, time_range) ==
    [service |-> IF service_name \in {None, ""} THEN "all services" ELSE service_name,
     time_range |-> time_range]

\* no diagnose call yet for a request
NoCall ==
    [agent |-> None, pc |-> "idle", start_time |-> 0, now |-> 0, messages |-> <<>>,
     tool_executions |-> <<>>, final_response |-> None, iteration |-> 0,
     tool_calls |-> <<>>, call_idx |-> 0, outcome |-> [kind |-> "none"],
     http_response |-> [status_code |-> 0], responses |-> <<>>, executed |-> <<>>]

(***************************************************************************)
(* Initial state: the service is up, one request has been accepted.        *)
(***************************************************************************)
Init ==
    /\ agent \in {"openai", "langchain"}
    /\ info_enabled \in BOOLEAN
    /\ pc = "start"
    /\ clock = 0
    /\ start_time = 0
    /\ messages = <<>>
    /\ tool_executions = <<>>
    /\ final_response = None
    /\ iteration = 0
    /\ tool_calls = <<>>
    /\ call_idx = 0
    /\ outcome = [kind |-> "none"]
    /\ http_response = [status_code |-> 0]
    /\ responses = <<>>
    /\ executed = <<>>
    /\ use_mock_data = TRUE
    /\ gcp_client = [query_logs |-> None, query_metrics |-> None]
    /\ tool_pc = "idle"
    /\ invocation = None
    /\ execute_outcome = None
    /\ run_result = None
    /\ requests = [r \in RequestIds |-> NoCall]
    /\ tool_listing = EmptyDict
    /\ self_name = [query_logs |-> "logs_query", query_metrics |-> "metrics_query"]

\* diagnose up to the first model call: the conversation is seeded and the
\* loop entered
Start ==
    /\ pc = "start"
    /\ start_time' = clock
    /\ messages' = <<[role |-> "system",
                      content |-> [service |-> Request.service_name,
                                   time_range |-> Request.time_range]],
                     [role |-> "user", content |-> Request.query]>>
    /\ tool_executions' = <<>>
    /\ final_response' = None
    /\ iteration' = 1
    /\ pc' = "llm"
    /\ UNCHANGED <<server_vars, tool_vars, agent, info_enabled, clock, tool_calls, call_idx, outcome,
                   http_response, responses, executed>>

\* a model call that is tried again when it raises
LLMFails_retry ==
    /\ pc = "llm"
    /\ clock' = clock + 1
    /\ responses' = Append(responses, [kind |-> "failure"])
    /\ UNCHANGED <<server_vars, tool_vars, agent, info_enabled, pc, start_time, messages, tool_executions,
                   final_response, iteration, tool_calls, call_idx, outcome,
                   http_response, executed>>

\* the awaited model call raises
LLMFails ==
    /\ pc = "llm"
    /\ clock' = clock + 1
    /\ responses' = Append(responses, [kind |-> "failure"])
    /\ Raise(OracleFailure)
    /\ UNCHANGED <<server_vars, tool_vars, agent, info_enabled, start_time, messages, tool_executions,
                   final_response, iteration, tool_calls, call_idx, executed>>

\* the model answers with no tool-call requests: final_response is set, the
\* loop is left and the result assembled
LLMAnswers ==
    /\ pc = "llm"
    /\ \E text \in OracleTexts(agent) :
          /\ responses' = Append(responses,
                [kind |-> "message", content |-> text, tool_calls |-> <<>>])
          /\ final_response' = text
          /\ Return(text, tool_executions, clock + 1)
    /\ clock' = clock + 1
    /\ UNCHANGED <<server_vars, tool_vars, agent, info_enabled, start_time, messages, tool_executions,
                   iteration, tool_calls, call_idx, executed>>

\* the model answers with tool-call requests: the assistant message is
\* appended and the first call dispatched
LLMRequestsTools ==
    /\ pc = "llm"
    /\ \E specs \in CallLists(agent) :
          /\ Len(Requested(responses)) + Len(specs) <= MaxTotalCalls
          /\ LET base == Len(Requested(responses))
                 calls == [i \in 1..Len(specs) |->
                              [id |-> base + i,
                               name |-> specs[i].name,
                               valid_json |-> specs[i].valid_json,
                               args |-> specs[i].args]]
             IN /\ responses' = Append(responses,
                      [kind |-> "message", content |-> None, tool_calls |-> calls])
                /\ messages' = Append(messages,
                      [role |-> "assistant", tool_calls |-> calls])
                /\ tool_calls' = calls
                /\ Dispatch(calls, 1)
    /\ clock' = clock + 1
    /\ UNCHANGED <<server_vars, tool_vars, agent, info_enabled, start_time, tool_executions,
                   final_response, iteration>>

\* a tool whose failure is not absorbed: it leaves diagnose as an exception
ToolReturns_abort_on_failure ==
    /\ pc = "tool"
    /\ clock' = clock + 1
    /\ LET call == tool_calls[call_idx]
           result == run(call.name, call.args, clock, clock + 1)
           trace == RecordExecution(tool_executions, call.name, result)
       IN IF ~result.success
          THEN /\ Raise(result.error)
               /\ UNCHANGED <<tool_executions, messages, iteration, call_idx, executed>>
          ELSE /\ tool_executions' = trace
               /\ messages' = AppendToolMessage(messages, call, result)
               /\ IF call_idx < Len(tool_calls)
                  THEN /\ Dispatch(tool_calls, call_idx + 1)
                       /\ UNCHANGED iteration
                  ELSE IF iteration < max_iterations
                  THEN /\ iteration' = iteration + 1
                       /\ pc' = "llm"
                       /\ UNCHANGED <<call_idx, outcome, http_response, executed>>
                  ELSE /\ Return(final_response, trace, clock + 1)
                       /\ UNCHANGED <<iteration, call_idx, executed>>
    /\ UNCHANGED <<server_vars, tool_vars, agent, info_enabled, start_time, final_response, tool_calls,
                   responses>>

\* the awaited tool returns: its record and its tool-result message are
\* appended; then the next call of the turn is dispatched, or the next
\* iteration begins, or the loop runs out
ToolReturns ==
    /\ pc = "tool"
    /\ clock' = clock + 1
    /\ LET call == tool_calls[call_idx]
           result == run(call.name, call.args, clock, clock + 1)
           trace == RecordExecution(tool_executions, call.name, result)
       IN /\ tool_executions' = trace
          /\ messages' = AppendToolMessage(messages, call, result)
          /\ IF call_idx < Len(tool_calls)
             THEN /\ Dispatch(tool_calls, call_idx + 1)
                  /\ UNCHANGED iteration
             ELSE IF iteration < max_iterations
             THEN /\ iteration' = iteration + 1
                  /\ pc' = "llm"
                  /\ UNCHANGED <<call_idx, outcome, http_response, executed>>
             ELSE /\ Return(final_response, trace, clock + 1)
                  /\ UNCHANGED <<iteration, call_idx, executed>>
    /\ UNCHANGED <<server_vars, tool_vars, agent, info_enabled, start_time, final_response, tool_calls,
                   responses>>

Next ==
    \/ Start
    \/ LLMFails
    \/ LLMAnswers
    \/ LLMRequestsTools
    \/ ToolReturns

Spec == Init /\ [][Next]_vars

\* The same call when every await comes back: the event loop resumes
\* diagnose once the awaited model call or tool call has returned or raised,
\* and the code between two awaits runs to the next await without waiting.
LiveSpec ==
    /\ Init
    /\ [][Next]_vars
    /\ WF_vars(Start)
    /\ WF_vars(LLMFails \/ LLMAnswers \/ LLMRequestsTools)
    /\ WF_vars(ToolReturns)

(***************************************************************************)
(* Direct calls of the tools: a caller (the test suite, the loop) awaits   *)
(* run on one of the two tool instances, with any keyword arguments,       *)
(* whatever provider the instance was constructed with.  No request is in  *)
(* progress.                                                               *)
(***************************************************************************)
MaxToolRuns == 2

TimeRanges == {"5m", "15m", "30m", "1h", "3h", "24h", "10m", "invalid", ""}
ServiceNames == {"all", "checkout-service", "payment-service", "inventory-service"}
Severities == {"all", "info", "ERROR", "Warning", "critical", "fatal"}
Limits == {0 - 5, 0, 3, 30, 100}
MetricTypeArgs == {"all", "cpu", "memory", "latency", "error_rate", "CPU", "disk"}

\* the keyword arguments of a call: every parameter given, none given (the
\* defaults apply), or a keyword the signature does not have
LogsKwargs ==
    [service_name : ServiceNames, time_range : TimeRanges,
     severity : Severities, limit : Limits]
    \cup {EmptyDict, [service_name |-> "all", verbose |-> TRUE]}

MetricsKwargs ==
    [service_name : {"all", "checkout-service"}, metric_type : MetricTypeArgs,
     time_range : TimeRanges]
    \cup {EmptyDict, [metric_type |-> "cpu", limit |-> 10]}

\* the random draws of one call: both ends of random.randint(10, 50), each
\* with its own sequence of per-entry draws
Draws == {[randint |-> 10, seed |-> 0], [randint |-> 50, seed |-> 1]}

\* the provider failing
ProviderError == Exception("ServiceUnavailable", "503 backend unavailable", "gcp")

\* the severities the filter severity>="<gcp_severity>" admits (every entry,
\* also one with no severity, when there is no severity filter)
AdmittedSeverities(severity) ==
    IF severity = "all" THEN {None, "INFO", "WARNING", "ERROR", "CRITICAL"}
    ELSE CASE gcp_severity(severity) = "INFO" ->
                 {"INFO", "WARNING", "ERROR", "CRITICAL"}
           [] gcp_severity(severity) = "WARNING" -> {"WARNING", "ERROR", "CRITICAL"}
           [] gcp_severity(severity) = "ERROR" -> {"ERROR", "CRITICAL"}
           [] gcp_severity(severity) = "CRITICAL" -> {"CRITICAL"}

\* what list_entries(filter_, max_results=limit, order_by=DESCENDING) can do:
\* fail, or yield entries, latest first, at most max_results of them when
\* that is not negative; the entries carry the lowest admitted severity, the
\* highest one, or none
LogsProviderOutcomes(severity, limit) ==
    {[raised |-> TRUE, error |-> ProviderError]} \cup
    {[raised |-> FALSE,
      entries |-> [i \in 1..n |->
                      [timestamp |-> 1 - i, severity |-> sev,
                       payload |-> "request failed", trace |-> None]]] :
        n \in {k \in {0, 2} : limit < 0 \/ k <= limit},
        sev \in AdmittedSeverities(severity) \cap
                   {None, gcp_severity(severity), "CRITICAL"}}

\* what list_time_series can do: fail, or yield points, latest first
MetricsProviderOutcomes ==
    {[raised |-> TRUE, error |-> ProviderError]} \cup
    {[raised |-> FALSE,
      points |-> [i \in 1..n |->
                     [timestamp |-> 1 - i,
                      value |-> [kind |-> kind, val |-> i]]]] :
        n \in {0, 2, 7},
        kind \in {"double_value", "bool_value"}}

LogsEnvs(kwargs) ==
    IF use_mock_data \/ gcp_client.query_logs = None
    THEN {[draw |-> d] : d \in Draws}
    ELSE {[provider |-> o] :
             o \in LogsProviderOutcomes(Get(kwargs, "severity", "all"),
                                        Get(kwargs, "limit", 100))}

MetricsEnvs ==
    IF use_mock_data \/ gcp_client.query_metrics = None
    THEN {[draw |-> d] : d \in Draws}
    ELSE {[draw |-> d, provider |-> o] : d \in Draws, o \in MetricsProviderOutcomes}

request_vars == <<agent, info_enabled, pc, start_time, messages, tool_executions,
                  final_response, iteration, tool_calls, call_idx, outcome,
                  http_response, responses, executed>>

\* the tool instances as their constructors leave them: a client handle only
\* when mock data is off (and the client could be built)
ToolInit ==
    /\ agent = "openai"
    /\ info_enabled = TRUE
    /\ pc = "start"
    /\ clock = 0
    /\ start_time = 0
    /\ messages = <<>>
    /\ tool_executions = <<>>
    /\ final_response = None
    /\ iteration = 0
    /\ tool_calls = <<>>
    /\ call_idx = 0
    /\ outcome = [kind |-> "none"]
    /\ http_response = [status_code |-> 0]
    /\ responses = <<>>
    /\ executed = <<>>
    /\ use_mock_data \in BOOLEAN
    /\ gcp_client \in [query_logs : {None, "client"}, query_metrics : {None, "client"}]
    /\ use_mock_data => gcp_client = [query_logs |-> None, query_metrics |-> None]
    /\ tool_pc = "idle"
    /\ invocation = None
    /\ execute_outcome = None
    /\ run_result = None
    /\ requests = [r \in RequestIds |-> NoCall]
    /\ tool_listing = EmptyDict
    /\ self_name = [query_logs |-> "logs_query", query_metrics |-> "metrics_query"]

\* a run that gives up its client handle once the provider has raised
RunTool_dropping_the_client(tool, kwargs, env, r) ==
    /\ invocation' = [tool |-> tool, kwargs |-> kwargs, env |-> env]
    /\ execute_outcome' = r
    /\ run_result' = run_envelope(r, clock, clock + 1)
    /\ clock' = clock + 1
    /\ tool_pc' = "returned"
    /\ gcp_client' = IF r.raised THEN [gcp_client EXCEPT ![tool] = None]
                                 ELSE gcp_client
    /\ UNCHANGED <<server_vars, request_vars, use_mock_data, self_name>>

\* await tool.run(...): env is what the random draws and the provider did
\* during the call, r is what the awaited execute did with them
RunTool(tool, kwargs, env, r) ==
    /\ invocation' = [tool |-> tool, kwargs |-> kwargs, env |-> env]
    /\ execute_outcome' = r
    /\ run_result' = run_envelope(r, clock, clock + 1)
    /\ clock' = clock + 1
    /\ tool_pc' = "returned"
    /\ UNCHANGED <<server_vars, request_vars, use_mock_data, gcp_client, self_name>>

RunLogsQuery ==
    /\ tool_pc = "idle"
    /\ clock < MaxToolRuns
    /\ \E kwargs \in LogsKwargs : \E env \in LogsEnvs(kwargs) :
          RunTool("query_logs", kwargs, env, LogsQueryTool_execute(kwargs, env))

RunMetricsQuery ==
    /\ tool_pc = "idle"
    /\ clock < MaxToolRuns
    /\ \E kwargs \in MetricsKwargs : \E env \in MetricsEnvs :
          RunTool("query_metrics", kwargs, env,
                  MetricsQueryTool_execute(kwargs, env))

\* the caller is done with the result
ToolRelease ==
    /\ tool_pc = "returned"
    /\ tool_pc' = "idle"
    /\ invocation' = None
    /\ execute_outcome' = None
    /\ run_result' = None
    /\ UNCHANGED <<server_vars, request_vars, clock, use_mock_data, gcp_client, self_name>>

ToolNext ==
    \/ RunLogsQuery
    \/ RunMetricsQuery
    \/ ToolRelease

ToolSpec == ToolInit /\ [][ToolNext]_vars

(***************************************************************************)
(* The server under concurrent requests: the endpoints of main.py, each    *)
(* POST running diagnose on the module-level agent of its endpoint.  The   *)
(* calls interleave at their awaits (the model call and the tool call);    *)
(* the code between two awaits runs without interruption.  The awaits of   *)
(* different calls overlap in time: each call reads the clock as its       *)
(* arrival time plus one tick per await of its own.                        *)
(***************************************************************************)
MaxServerCalls == 2

\* what the model asks for in these runs
ServerCallLists ==
    {<<[name |-> "query_metrics", valid_json |-> TRUE, args |-> EmptyDict]>>,
     <<[name |-> "query_logs", valid_json |-> TRUE, args |-> [limit |-> 0]]>>,
     <<[name |-> "query_metrics", valid_json |-> TRUE,
        args |-> [metric_type |-> "cpu"]],
       [name |-> "query_logs", valid_json |-> TRUE,
        args |-> [time_range |-> "15m"]]>>}

\* the locals of a diagnose call held on the agent instance instead of in
\* the call's frame: one trace for all calls
StoreLocals_trace_on_agent(r, c) ==
    [q \in RequestIds |->
        IF q = r THEN c
        ELSE [requests[q] EXCEPT !.tool_executions = c.tool_executions]]

\* the locals of diagnose call r (messages, tool_executions, final_response,
\* ...) live in that call's own frame
StoreLocals(r, c) == [requests EXCEPT ![r] = c]

\* an exception leaves the diagnose call and reaches its endpoint's handler
CallRaise(c, e) ==
    [c EXCEPT !.pc = "done",
              !.outcome = [kind |-> "error", error |-> e],
              !.http_response = HttpOnError(e)]

\* the code after the loop of call r: the result is assembled and returned
CallReturn(c, r, final, trace, now) ==
    LET result == DiagnosisResultOf(c.agent, r, Queries[r], c.start_time,
                                    final, trace, now)
    IN [c EXCEPT !.pc = "done",
                 !.outcome = [kind |-> "result", result |-> result],
                 !.http_response = HttpOnResult(result)]

\* the head of the for-loop body for call number k of the turn
CallDispatch(c, k) ==
    IF DispatchErrorOf(c.agent, c.tool_calls[k]) # NoError
    THEN CallRaise(c, DispatchErrorOf(c.agent, c.tool_calls[k]))
    ELSE [c EXCEPT !.pc = "tool",
                   !.call_idx = k,
                   !.executed = Append(@, c.tool_calls[k])]

ServerInit ==
    /\ agent = "openai"
    /\ info_enabled \in BOOLEAN
    /\ pc = "start"
    /\ clock = 0
    /\ start_time = 0
    /\ messages = <<>>
    /\ tool_executions = <<>>
    /\ final_response = None
    /\ iteration = 0
    /\ tool_calls = <<>>
    /\ call_idx = 0
    /\ outcome = [kind |-> "none"]
    /\ http_response = [status_code |-> 0]
    /\ responses = <<>>
    /\ executed = <<>>
    /\ use_mock_data = TRUE
    /\ gcp_client = [query_logs |-> None, query_metrics |-> None]
    /\ tool_pc = "idle"
    /\ invocation = None
    /\ execute_outcome = None
    /\ run_result = None
    /\ requests = [r \in RequestIds |-> NoCall]
    /\ tool_listing = EmptyDict
    /\ self_name = [query_logs |-> "logs_query", query_metrics |-> "metrics_query"]

\* POST /api/v1/diagnose (a = "openai") or /api/v1/diagnose-langchain: the
\* handler calls diagnose, which seeds the conversation and awaits the model
PostDiagnose(r, a) ==
    /\ requests[r].pc = "idle"
    /\ requests' = StoreLocals(r,
          [NoCall EXCEPT
              !.agent = a,
              !.pc = "llm",
              !.start_time = clock,
              !.now = clock,
              !.messages = <<[role |-> "system",
                              content |-> system_prompt(Contexts[r].service_name,
                                                        Contexts[r].time_range)],
                             [role |-> "user", content |-> Queries[r]]>>,
              !.iteration = 1])
    /\ UNCHANGED <<request_vars, clock, tool_vars, tool_listing>>

\* the awaited model call of r raises
ModelFails(r) ==
    /\ requests[r].pc = "llm"
    /\ requests' = StoreLocals(r,
          CallRaise([requests[r] EXCEPT
                       !.responses = Append(@, [kind |-> "failure"]),
                       !.now = @ + 1],
                    OracleFailure))
    /\ UNCHANGED <<request_vars, clock, tool_vars, tool_listing>>

\* the model answers r with no tool-call requests
ModelAnswers(r) ==
    /\ requests[r].pc = "llm"
    /\ \E text \in OracleTexts(requests[r].agent) :
          requests' = StoreLocals(r,
             CallReturn([requests[r] EXCEPT
                           !.responses = Append(@, [kind |-> "message",
                                                    content |-> text,
                                                    tool_calls |-> <<>>]),
                           !.final_response = text,
                           !.now = @ + 1],
                        r, text, requests[r].tool_executions, requests[r].now + 1))
    /\ UNCHANGED <<request_vars, clock, tool_vars, tool_listing>>

\* the model answers r with tool-call requests: the assistant message is
\* appended and the first call dispatched
ModelRequestsTools(r) ==
    /\ requests[r].pc = "llm"
    /\ \E specs \in ServerCallLists :
          /\ Len(Requested(requests[r].responses)) + Len(specs) <= MaxServerCalls
          /\ LET base == Len(Requested(requests[r].responses))
                 asked == [i \in 1..Len(specs) |->
                              [id |-> [request |-> r, n |-> base + i],
                               name |-> specs[i].name,
                               valid_json |-> specs[i].valid_json,
                               args |-> specs[i].args]]
             IN requests' = StoreLocals(r,
                   CallDispatch([requests[r] EXCEPT
                                   !.responses = Append(@, [kind |-> "message",
                                                            content |-> None,
                                                            tool_calls |-> asked]),
                                   !.messages = Append(@, [role |-> "assistant",
                                                           tool_calls |-> asked]),
                                   !.tool_calls = asked,
                                   !.now = @ + 1],
                                1))
    /\ UNCHANGED <<request_vars, clock, tool_vars, tool_listing>>

\* a tool step that fills the parameters the model omitted from the request
ToolDone_filling_from_the_request(r) ==
    /\ requests[r].pc = "tool"
    /\ LET c == requests[r]
           call == c.tool_calls[c.call_idx]
           result == run(call.name,
                         call.args @@ [time_range |-> Contexts[r].time_range],
                         c.now, c.now + 1)
           trace == RecordExecution(c.tool_executions, call.name, result)
           recorded == [c EXCEPT !.tool_executions = trace,
                                 !.messages = AppendToolMessage(@, call, result),
                                 !.now = @ + 1]
       IN requests' = StoreLocals(r,
             IF c.call_idx < Len(c.tool_calls)
             THEN CallDispatch(recorded, c.call_idx + 1)
             ELSE IF c.iteration < max_iterations
             THEN [recorded EXCEPT !.iteration = @ + 1, !.pc = "llm"]
             ELSE CallReturn(recorded, r, c.final_response, trace, c.now + 1))
    /\ UNCHANGED <<request_vars, clock, tool_vars, tool_listing>>

\* the awaited tool of r returns: record and tool-result message appended,
\* then the next call of the turn, the next iteration, or the end
ToolDone(r) ==
    /\ requests[r].pc = "tool"
    /\ LET c == requests[r]
           call == c.tool_calls[c.call_idx]
           result == run(call.name, call.args, c.now, c.now + 1)
           trace == RecordExecution(c.tool_executions, call.name, result)
           recorded == [c EXCEPT !.tool_executions = trace,
                                 !.messages = AppendToolMessage(@, call, result),
                                 !.now = @ + 1]
       IN requests' = StoreLocals(r,
             IF c.call_idx < Len(c.tool_calls)
             THEN CallDispatch(recorded, c.call_idx + 1)
             ELSE IF c.iteration < max_iterations
             THEN [recorded EXCEPT !.iteration = @ + 1, !.pc = "llm"]
             ELSE CallReturn(recorded, r, c.final_response, trace, c.now + 1))
    /\ UNCHANGED <<request_vars, clock, tool_vars, tool_listing>>

\* a schema set whose time_range enum offers a token the tools do not know
function_schemas_offering_10m ==
    <<[type |-> "function",
       name |-> "query_logs",
       properties |->
          [service_name |-> [type |-> "string", enum |-> {}, default |-> "all"],
           time_range |-> [type |-> "string",
                           enum |-> {"5m", "10m", "15m", "30m", "1h", "3h", "24h"},
                           default |-> "15m"],
           severity |-> [type |-> "string",
                         enum |-> {"info", "warning", "error", "critical", "all"},
                         default |-> "all"],
           limit |-> [type |-> "integer", enum |-> {}, default |-> 100]],
       required |-> {}],
      [type |-> "function",
       name |-> "query_metrics",
       properties |->
          [service_name |-> [type |-> "string", enum |-> {}, default |-> "all"],
           metric_type |-> [type |-> "string",
                            enum |-> {"cpu", "memory", "latency", "error_rate", "all"},
                            default |-> "all"],
           time_range |-> [type |-> "string",
                           enum |-> {"5m", "10m", "15m", "30m", "1h", "3h", "24h"},
                           default |-> "15m"]],
       required |-> {}]>>

\* _build_function_schemas: the schema set given to the model; of each
\* parameter its type, its enum (empty when the schema states none) and its
\* default
function_schemas ==
    <<[type |-> "function",
       name |-> "query_logs",
       properties |->
          [service_name |-> [type |-> "string", enum |-> {}, default |-> "all"],
           time_range |-> [type |-> "string",
                           enum |-> {"5m", "15m", "30m", "1h", "3h", "24h"},
                           default |-> "15m"],
           severity |-> [type |-> "string",
                         enum |-> {"info", "warning", "error", "critical", "all"},
                         default |-> "all"],
           limit |-> [type |-> "integer", enum |-> {}, default |-> 100]],
       required |-> {}],
      [type |-> "function",
       name |-> "query_metrics",
       properties |->
          [service_name |-> [type |-> "string", enum |-> {}, default |-> "all"],
           metric_type |-> [type |-> "string",
                            enum |-> {"cpu", "memory", "latency", "error_rate", "all"},
                            default |-> "all"],
           time_range |-> [type |-> "string",
                           enum |-> {"5m", "15m", "30m", "1h", "3h", "24h"},
                           default |-> "15m"]],
       required |-> {}]>>

\* a listing that leaves the Metrics tool out
get_tools_logs_only ==
    [tools |-> <<[name |-> "query_logs",
                  description |-> "Query application logs to find errors, warnings, and events"]>>]

\* GET /api/v1/tools
get_tools ==
    [tools |-> <<[name |-> "query_logs",
                  description |-> "Query application logs to find errors, warnings, and events"],
                 [name |-> "query_metrics",
                  description |-> "Query system metrics (CPU, memory, latency, error rates)"]>>]

GetTools ==
    /\ tool_listing' = get_tools
    /\ UNCHANGED <<request_vars, clock, tool_vars, requests>>

ServerNext ==
    \/ \E r \in RequestIds : \E a \in {"openai", "langchain"} : PostDiagnose(r, a)
    \/ \E r \in RequestIds : ModelFails(r)
    \/ \E r \in RequestIds : ModelAnswers(r)
    \/ \E r \in RequestIds : ModelRequestsTools(r)
    \/ \E r \in RequestIds : ToolDone(r)
    \/ GetTools

ServerSpec == ServerInit /\ [][ServerNext]_vars

(***************************************************************************)
(* Vocabulary of the properties.                                           *)
(***************************************************************************)
ToolNamesOf(trace) == [i \in 1..Len(trace) |-> trace[i].tool_name]
NamesOf(calls) == [i \in 1..Len(calls) |-> calls[i].name]

RequestsTools(r) == r.kind = "message" /\ r.tool_calls # <<>>
AnswersText(r) == r.kind = "message" /\ r.tool_calls = <<>>

Consultations == Len(responses)
AllRequestedTools == \A k \in 1..Len(responses) : RequestsTools(responses[k])

Returned == pc = "done" /\ outcome.kind = "result"
Failed == pc = "done" /\ outcome.kind = "error"

\* the conversation since the last assistant message
LastAssistant(msgs) ==
    LET at == {k \in 1..Len(msgs) : msgs[k].role = "assistant"}
    IN IF at = {} THEN 0 ELSE CHOOSE k \in at : \A j \in at : j <= k
TurnResults(msgs) == SubSeq(msgs, LastAssistant(msgs) + 1, Len(msgs))
CallIdsOf(msgs) == [i \in 1..Len(msgs) |-> msgs[i].tool_call_id]
ListedIds(calls, n) == [i \in 1..n |-> calls[i].id]

\* how a diagnose call has ended
Answered == Returned /\ outcome.result.analysis # SENTINEL
Exhausted == Returned /\ outcome.result.analysis = SENTINEL
Ended == (IF Answered THEN 1 ELSE 0) + (IF Exhausted THEN 1 ELSE 0)
             + (IF Failed THEN 1 ELSE 0) = 1

IsErrorRecord(rec) == rec.result_summary.fmt = "Error: {}"

(***************************************************************************)
(* C1: in every execution of diagnose, with either agent and whatever the  *)
(* oracle answers, at most 5 model consultations are made: no 6th          *)
(* consultation is awaited after 5 consultations that requested tools.     *)
(***************************************************************************)
C1_AtMostFiveConsultations ==
    /\ Consultations <= 5
    /\ pc = "llm" => Consultations < 5
    /\ iteration <= 5

\* five consultations were made, each requested tools, and the call returned
C1_Witness ==
    /\ Consultations = 5
    /\ AllRequestedTools
    /\ Returned

(***************************************************************************)
(* C2 (as stated): if all 5 consultations request tools, diagnose returns  *)
(* a result whose analysis is the sentinel and whose tools_executed has    *)
(* one record per tool call requested in the 5 iterations, in call order.  *)
(***************************************************************************)
C2_ExhaustedReturnsSentinelAndFullTrace ==
    (pc = "done" /\ Consultations = 5 /\ AllRequestedTools) =>
        /\ outcome.kind = "result"
        /\ outcome.result.analysis =
              "Analysis incomplete: maximum tool call iterations reached."
        /\ ToolNamesOf(outcome.result.tools_executed) = NamesOf(Requested(responses))

(***************************************************************************)
(* C3 (as stated): when the model's answer carries no tool-call requests   *)
(* the loop stops and the returned analysis is that answer's text, for     *)
(* every text, empty or absent included; the sentinel is produced only     *)
(* when the cap was reached.                                               *)
(***************************************************************************)
C3_AnswerTextIsAnalysis ==
    /\ (responses # <<>> /\ AnswersText(responses[Len(responses)])) =>
          /\ Returned
          /\ outcome.result.analysis = responses[Len(responses)].content
    /\ (Returned /\ outcome.result.analysis = SENTINEL) =>
          (Consultations = 5 /\ AllRequestedTools)

(***************************************************************************)
(* C4: every result diagnose returns has in tools_executed exactly one     *)
(* record per executed tool call, in execution order; when the model asks  *)
(* for query_logs, then query_metrics, then answers, tools_executed is     *)
(* [query_logs, query_metrics] and status is "success".                    *)
(***************************************************************************)
C4_TraceIsExecutionOrder ==
    Returned =>
        /\ ToolNamesOf(outcome.result.tools_executed) = NamesOf(executed)
        /\ (/\ NamesOf(Requested(responses)) = <<"query_logs", "query_metrics">>
            /\ AnswersText(responses[Len(responses)]))
           => /\ ToolNamesOf(outcome.result.tools_executed) =
                    <<"query_logs", "query_metrics">>
              /\ outcome.result.status = "success"

\* logs then metrics were requested in two turns, then the model answered
C4_Witness ==
    /\ Returned
    /\ Consultations = 3
    /\ NamesOf(Requested(responses)) = <<"query_logs", "query_metrics">>
    /\ ToolNamesOf(outcome.result.tools_executed) = <<"query_logs", "query_metrics">>
    /\ agent = "openai"

(***************************************************************************)
(* C5: when the execute of a registered tool fails during a call the model *)
(* requested, diagnose does not abort: the call's record is appended to    *)
(* the trace and its tool-result message to the conversation, the next     *)
(* call of the same turn is dispatched as it would be after a success,     *)
(* and after the last call of the turn the next consultation takes place,  *)
(* unless the cap is reached (then the result is returned).                *)
(***************************************************************************)
C5_ToolFailureAbsorbed ==
    [][ (pc = "tool" /\ execute(tool_calls[call_idx].name,
                                tool_calls[call_idx].args).raised) =>
        LET call == tool_calls[call_idx]
            record == tool_executions'[Len(tool_executions')]
            message == messages'[Len(messages')]
        IN /\ Len(tool_executions') = Len(tool_executions) + 1
           /\ SubSeq(tool_executions', 1, Len(tool_executions)) = tool_executions
           /\ record.tool_name = call.name
           /\ IsErrorRecord(record)
           /\ record.data_points = 0
           /\ Len(messages') = Len(messages) + 1
           /\ SubSeq(messages', 1, Len(messages)) = messages
           /\ message.role = "tool"
           /\ message.tool_call_id = call.id
           /\ IF call_idx < Len(tool_calls)
              THEN LET next == tool_calls[call_idx + 1] IN
                   IF next.name \in {"query_logs", "query_metrics"} /\ next.valid_json
                   THEN /\ pc' = "tool"
                        /\ call_idx' = call_idx + 1
                        /\ executed' = Append(executed, next)
                   ELSE /\ Failed'
                        /\ outcome'.error.type \in {"ValueError", "JSONDecodeError"}
                        /\ outcome'.error.text # "Invalid time_range"
              ELSE IF Consultations < 5
                   THEN pc' = "llm" /\ outcome' = outcome
                   ELSE Returned'
      ]_vars

\* the first call of a two-call turn failed, the second one ran, and the
\* next consultation is awaited
C5_Witness ==
    /\ pc = "llm"
    /\ Len(tool_calls) = 2
    /\ Len(tool_executions) >= 2
    /\ IsErrorRecord(tool_executions[Len(tool_executions) - 1])
    /\ ~IsErrorRecord(tool_executions[Len(tool_executions)])
    /\ messages[Len(messages)].role = "tool"
    /\ agent = "openai"

(***************************************************************************)
(* C6 (as stated): diagnose ends without a result only when the oracle     *)
(* call itself failed or a programming contract was violated (the          *)
(* KeyError of the log statement is counted as one); no content of an      *)
(* answer the model returned, tool names and argument payloads included,   *)
(* and no tool-level failure makes diagnose raise.                         *)
(***************************************************************************)
C6_OnlyOracleFailureIsFatal ==
    Failed =>
        \/ responses[Len(responses)].kind = "failure"
        \/ outcome.error.type = "KeyError"

(***************************************************************************)
(* C7 (as stated): when the model requests a tool name that is not in the  *)
(* registry, resolution fails with the "Unknown tool" error: no tool runs  *)
(* for that call, no record and no tool-result message is appended for    *)
(* it, and diagnose ends with that error.                                  *)
(***************************************************************************)
C7_UnknownToolEndsDiagnose ==
    LET requested == Requested(responses) IN
    (/\ pc = "done"
     /\ Len(executed) < Len(requested)
     /\ requested[Len(executed) + 1].name \notin {"query_logs", "query_metrics"})
    => /\ outcome.kind = "error"
       /\ outcome.error.type = "ValueError"
       /\ outcome.error.text = "Unknown tool"
       /\ outcome.error.about = requested[Len(executed) + 1].name
       /\ Len(tool_executions) = Len(executed)
       /\ messages[Len(messages)].role # "tool"
             \/ messages[Len(messages)].tool_call_id # requested[Len(executed) + 1].id

(***************************************************************************)
(* C8: a failure of the oracle call at consultation k, 1 <= k <= 5, is     *)
(* neither retried nor recovered: it is the last consultation, diagnose    *)
(* ends with that failure and the endpoint answers 500.                    *)
(***************************************************************************)
C8_OracleFailurePropagates ==
    \A k \in 1..Len(responses) :
        responses[k].kind = "failure" =>
            /\ k = Len(responses)
            /\ k <= 5
            /\ pc = "done"
            /\ outcome.kind = "error"
            /\ outcome.error.type = "APIError"
            /\ http_response.status_code = 500

\* the oracle failed at the 5th consultation, after tools had run
C8_Witness ==
    /\ Len(responses) = 5
    /\ responses[5].kind = "failure"
    /\ Len(tool_executions) >= 4
    /\ http_response.status_code = 500

(***************************************************************************)
(* C9: a diagnose request has exactly one of two outcomes, a complete      *)
(* Diagnosis Result (request_id, status, query, analysis, tools_executed,  *)
(* processing_time_ms, timestamp) or one request-level error; nothing is   *)
(* sent before the end, and an error carries none of the records of the    *)
(* tool calls that had been executed.                                      *)
(***************************************************************************)
C9_ResultOrSingleError ==
    /\ pc # "done" => (outcome.kind = "none" /\ http_response.status_code = 0)
    /\ pc = "done" =>
          \/ /\ outcome.kind = "result"
             /\ http_response.status_code = 200
             /\ DOMAIN http_response.body =
                   {"request_id", "status", "query", "analysis", "tools_executed",
                    "processing_time_ms", "timestamp"}
             /\ http_response.body.tools_executed = tool_executions
          \/ /\ outcome.kind = "error"
             /\ http_response.status_code = 500
             /\ DOMAIN http_response.body = {"detail"}
             /\ http_response.body.detail = str(outcome.error)

\* the request failed after two tool calls had been executed and recorded
C9_Witness ==
    /\ Failed
    /\ Len(tool_executions) >= 2
    /\ http_response.status_code = 500

(***************************************************************************)
(* C10: every result diagnose returns has status "success": when the model *)
(* answered, when the loop ran out, and when tools_executed holds failed   *)
(* records; "partial" and "failed" never occur.                            *)
(***************************************************************************)
C10_StatusAlwaysSuccess ==
    Returned =>
        /\ outcome.result.status = "success"
        /\ http_response.body.status = "success"

\* the loop ran out and the trace holds a failed record
C10_Witness ==
    /\ Returned
    /\ Consultations = 5
    /\ AllRequestedTools
    /\ outcome.result.analysis = SENTINEL
    /\ \E i \in 1..Len(outcome.result.tools_executed) :
          IsErrorRecord(outcome.result.tools_executed[i])

(***************************************************************************)
(* Vocabulary of the properties about direct tool calls.                   *)
(***************************************************************************)
ToolReturned == tool_pc = "returned"
ExecuteRaised == ToolReturned /\ execute_outcome.raised
ExecuteGave == ToolReturned /\ ~execute_outcome.raised
Arg(key, default) == Get(invocation.kwargs, key, default)
MockBacked(tool) == use_mock_data \/ gcp_client[tool] = None
\* the server's calls
Posted(r) == requests[r].pc # "idle"
Completed(c) ==
    IF c.pc = "tool" THEN SubSeq(c.executed, 1, Len(c.executed) - 1) ELSE c.executed
Listed == DOMAIN tool_listing # {}
IdsOfNames(listed) == {listed[i].name : i \in 1..Len(listed)}
IdsOf(calls) == {calls[i].id : i \in 1..Len(calls)}
ToolCallMessages(rs) ==
    {rs[j].tool_calls : j \in {i \in 1..Len(rs) : RequestsTools(rs[i])}}

\* the conversation as diagnose seeds it, and the messages it may gain
SeedConversation ==
    <<[role |-> "system",
       content |-> [service |-> Request.service_name,
                    time_range |-> Request.time_range]],
      [role |-> "user", content |-> Request.query]>>
IsPrefix(s, t) == Len(s) <= Len(t) /\ SubSeq(t, 1, Len(s)) = s
ToolCallingOrResult(msg) ==
    \/ msg.role = "assistant" /\ msg.tool_calls # <<>>
    \/ msg.role = "tool"

\* the tool-result messages of the single call and the calls behind them
ToolResults(msgs) == SelectSeq(msgs, LAMBDA x : x.role = "tool")
Awaited(k) == Completed([pc |-> pc, executed |-> executed])[k]
AskedBefore(msgs, k) ==
    \E j \in 1..(k - 1) :
        /\ msgs[j].role = "assistant"
        /\ msgs[k].tool_call_id \in IdsOf(msgs[j].tool_calls)

\* the model's answer number k was the same to both calls: the same text,
\* the same tool names and argument mappings
SameAnswer(x, y) ==
    /\ x.kind = y.kind
    /\ x.kind = "message" =>
          /\ x.content = y.content
          /\ NamesOf(x.tool_calls) = NamesOf(y.tool_calls)
          /\ \A i \in 1..Len(x.tool_calls) : x.tool_calls[i].args = y.tool_calls[i].args
\* everything the model told call c it told call d as well, in the same order
FedAlike(c, d) ==
    /\ Len(c.responses) <= Len(d.responses)
    /\ \A k \in 1..Len(c.responses) : SameAnswer(c.responses[k], d.responses[k])

\* the schema the model was given for a tool, what it admits, and the
\* contract of the tool behind it
SchemaOf(tool) ==
    function_schemas[CHOOSE i \in 1..Len(function_schemas) :
                        function_schemas[i].name = tool]
SignatureOf(tool) ==
    IF tool = "query_logs" THEN LogsQueryTool_signature ELSE MetricsQueryTool_signature
SchemaAdmits(tool, kwargs) ==
    /\ DOMAIN kwargs \subseteq DOMAIN SchemaOf(tool).properties
    /\ \A k \in DOMAIN kwargs :
          LET prop == SchemaOf(tool).properties[k]
          IN /\ prop.enum # {} => kwargs[k] \in prop.enum
             /\ prop.type = "integer" => kwargs[k] \in Int

ProviderRaised ==
    /\ ToolReturned
    /\ ~MockBacked(invocation.tool)
    /\ invocation.env.provider.raised

(***************************************************************************)
(* C11: run never raises when execute raises, whatever the exception and   *)
(* whatever the keyword arguments: it hands back a result with success     *)
(* false, error equal to the exception's message, execution_time_ms and    *)
(* timestamp.                                                              *)
(***************************************************************************)
C11_RunAbsorbsEveryException ==
    ExecuteRaised =>
        /\ DOMAIN run_result = {"success", "error", "execution_time_ms", "timestamp"}
        /\ run_result.success = FALSE
        /\ run_result.error.text = execute_outcome.error.text
        /\ run_result.error.about = execute_outcome.error.about
        /\ "type" \notin DOMAIN run_result.error
        /\ run_result.timestamp = clock

\* run was called with a keyword execute does not have, and reported the
\* TypeError as a failed result
C11_Witness ==
    /\ ExecuteRaised
    /\ execute_outcome.error.type = "TypeError"
    /\ run_result.success = FALSE
    /\ run_result.error.text = "got an unexpected keyword argument"

(***************************************************************************)
(* C12: every result of run carries exactly one of data and error, gated   *)
(* by success: success true means data is there (the value execute         *)
(* returned) and error is not; success false means error is there and data *)
(* is not.                                                                 *)
(***************************************************************************)
C12_ExactlyOneOfDataAndError ==
    ToolReturned =>
        /\ run_result.success = ~execute_outcome.raised
        /\ run_result.success =>
              /\ "data" \in DOMAIN run_result
              /\ "error" \notin DOMAIN run_result
              /\ run_result.data = execute_outcome.value
        /\ ~run_result.success =>
              /\ "error" \in DOMAIN run_result
              /\ "data" \notin DOMAIN run_result

\* a call of the Logs tool succeeded and its result carries the entries
C12_Witness ==
    /\ ExecuteGave
    /\ invocation.tool = "query_logs"
    /\ run_result.success
    /\ run_result.data.total_logs > 0

(***************************************************************************)
(* C13: parse_time_range maps exactly the six tokens 5m, 15m, 30m, 1h, 3h, *)
(* 24h to 5, 15, 30, 60, 180, 1440 minutes and accepts no other token, and *)
(* both tools take their window from these values: the generated metric    *)
(* series hold one point for each of the last so many minutes, a series    *)
(* read from the provider is cut to at most so many points, and every      *)
(* generated log entry is at most so many minutes old.                     *)
(***************************************************************************)
C13_SixTokensAndTheirMinutes ==
    LET expected == [t \in {"5m", "15m", "30m", "1h", "3h", "24h"} |->
                        CASE t = "5m" -> 5 [] t = "15m" -> 15 [] t = "30m" -> 30
                          [] t = "1h" -> 60 [] t = "3h" -> 180 [] t = "24h" -> 1440]
    IN /\ \A t \in TimeRanges :
             /\ parse_time_range(t).ok = (t \in DOMAIN expected)
             /\ t \in DOMAIN expected => parse_time_range(t).minutes = expected[t]
       /\ ExecuteGave =>
             LET minutes == expected[Arg("time_range", "15m")]
                 data == run_result.data
             IN IF invocation.tool = "query_metrics"
                THEN \A key \in DOMAIN data.metrics :
                        LET series == data.metrics[key] IN
                        /\ Len(series) <= minutes
                        /\ MockBacked("query_metrics") =>
                              /\ Len(series) = minutes
                              /\ \A k \in 1..minutes :
                                    series[k].timestamp = k - 1 - minutes
                ELSE MockBacked("query_logs") =>
                        \A k \in 1..Len(data.logs) :
                           /\ data.logs[k].timestamp <= 0
                           /\ data.logs[k].timestamp >= 0 - minutes

\* the Metrics tool was asked for 24h and gave series of 1440 points
C13_Witness ==
    /\ ExecuteGave
    /\ invocation.tool = "query_metrics"
    /\ Arg("time_range", "15m") = "24h"
    /\ Arg("metric_type", "all") = "all"
    /\ run_result.data.data_points = 1440
    /\ Len(run_result.data.metrics["cpu_usage_percent"]) = 1440

(***************************************************************************)
(* C14: for every time_range outside the six tokens ("10m", "invalid" and  *)
(* the empty string among them) execute of the Logs tool and of the        *)
(* Metrics tool raises an error whose message holds "Invalid time_range",  *)
(* the offending token and the valid set, and gives no data; with the mock *)
(* provider and with a live provider alike, whatever the provider does.    *)
(***************************************************************************)
C14_InvalidTimeRangeRaises ==
    (/\ ToolReturned
     /\ DOMAIN invocation.kwargs \subseteq
           {"service_name", "time_range", "severity", "limit", "metric_type"}
     /\ Arg("time_range", "15m") \notin {"5m", "15m", "30m", "1h", "3h", "24h"})
    => /\ execute_outcome.raised
       /\ "value" \notin DOMAIN execute_outcome
       /\ execute_outcome.error.text = "Invalid time_range"
       /\ execute_outcome.error.about = Arg("time_range", "15m")
       /\ execute_outcome.error.valid_options = <<"5m", "15m", "30m", "1h", "3h", "24h">>
       /\ ~run_result.success
       /\ "data" \notin DOMAIN run_result
       /\ run_result.error.text = "Invalid time_range"

\* the Logs tool, backed by the live provider, was called with the empty
\* string as time_range and raised
C14_Witness ==
    /\ ExecuteRaised
    /\ invocation.tool = "query_logs"
    /\ ~MockBacked("query_logs")
    /\ "time_range" \in DOMAIN invocation.kwargs
    /\ invocation.kwargs.time_range = ""
    /\ execute_outcome.error.type = "ValueError"

(***************************************************************************)
(* C15: for every valid time_range and every metric_type the result of the *)
(* Metrics tool has data_points equal to the resolved minute count, and    *)
(* every series in metrics has exactly that many points, whichever         *)
(* provider backs the tool.                                                *)
(***************************************************************************)
C15_DataPointsEqualMinutes ==
    (ExecuteGave /\ invocation.tool = "query_metrics") =>
        LET minutes == TIME_RANGE_MINUTES[Arg("time_range", "15m")]
            data == run_result.data
        IN /\ data.data_points = minutes
           /\ \A key \in DOMAIN data.metrics : Len(data.metrics[key]) = minutes

(***************************************************************************)
(* C16: the metrics mapping of the Metrics tool holds exactly the keys     *)
(* metric_type implies: "all" gives the four keys, each recognized type    *)
(* its one key, and an unrecognized metric_type (a case variant such as    *)
(* "CPU" too) gives an empty mapping and no error.                         *)
(***************************************************************************)
C16_KeysImpliedByMetricType ==
    (/\ ToolReturned
     /\ invocation.tool = "query_metrics"
     /\ DOMAIN invocation.kwargs \subseteq {"service_name", "metric_type", "time_range"}
     /\ Arg("time_range", "15m") \in {"5m", "15m", "30m", "1h", "3h", "24h"})
    => /\ ~execute_outcome.raised
       /\ run_result.success
       /\ DOMAIN run_result.data.metrics =
             CASE Arg("metric_type", "all") = "all" ->
                     {"cpu_usage_percent", "memory_usage_percent",
                      "response_time_ms", "error_rate_percent"}
               [] Arg("metric_type", "all") = "cpu" -> {"cpu_usage_percent"}
               [] Arg("metric_type", "all") = "memory" -> {"memory_usage_percent"}
               [] Arg("metric_type", "all") = "latency" -> {"response_time_ms"}
               [] Arg("metric_type", "all") = "error_rate" -> {"error_rate_percent"}
               [] OTHER -> {}

\* the Metrics tool was asked for "CPU" and gave an empty mapping
C16_Witness ==
    /\ ExecuteGave
    /\ invocation.tool = "query_metrics"
    /\ Arg("metric_type", "all") = "CPU"
    /\ run_result.success
    /\ DOMAIN run_result.data.metrics = {}

(***************************************************************************)
(* C17: every value of every series the Metrics tool generates is at least *)
(* 0, for all metric types and all time ranges.                            *)
(***************************************************************************)
C17_GeneratedValuesNonNegative ==
    (ExecuteGave /\ invocation.tool = "query_metrics" /\ MockBacked("query_metrics")) =>
        \A key \in DOMAIN run_result.data.metrics :
           \A k \in 1..Len(run_result.data.metrics[key]) :
              run_result.data.metrics[key][k].value >= 0

\* all four series were generated for 24 hours; the error-rate series holds
\* its lowest draw (0.5 - 0.3) and a spike of ten times (0.5 + 0.3)
C17_Witness ==
    /\ ExecuteGave
    /\ invocation.tool = "query_metrics"
    /\ MockBacked("query_metrics")
    /\ Arg("time_range", "15m") = "24h"
    /\ Cardinality(DOMAIN run_result.data.metrics) = 4
    /\ \E k \in 1..1440 : run_result.data.metrics["error_rate_percent"][k].value = 20
    /\ \E k \in 1..1440 : run_result.data.metrics["error_rate_percent"][k].value = 800

C19_EntriesMatchSeverity ==
    (/\ ExecuteGave
     /\ invocation.tool = "query_logs"
     /\ lower(Arg("severity", "all")) \in {"info", "warning", "error", "critical"})
    => \A k \in 1..Len(run_result.data.logs) :
          lower(run_result.data.logs[k].severity) = lower(Arg("severity", "all"))

(***************************************************************************)
(* C20: for every call of the Logs tool with a service_name other than     *)
(* "all", whether or not a log template exists for it, every returned      *)
(* entry's service equals the requested service_name.                      *)
(***************************************************************************)
C20_EntriesMatchService ==
    (/\ ExecuteGave
     /\ invocation.tool = "query_logs"
     /\ Arg("service_name", "all") # "all")
    => \A k \in 1..Len(run_result.data.logs) :
          run_result.data.logs[k].service = Arg("service_name", "all")
C22_ProviderErrorFallsBackToMock ==
    (/\ ProviderRaised
     /\ Arg("time_range", "15m") \in DOMAIN TIME_RANGE_MINUTES
     /\ DOMAIN invocation.kwargs \subseteq
           {"service_name", "time_range", "severity", "limit", "metric_type"})
    => /\ ~execute_outcome.raised
       /\ run_result.success
       /\ invocation.tool = "query_logs" =>
             DOMAIN run_result.data = {"total_logs", "time_range", "service", "logs"}
       /\ invocation.tool = "query_metrics" =>
             DOMAIN run_result.data =
                {"service", "time_range", "metric_type", "data_points", "metrics"}

(***************************************************************************)
(* C23: of two diagnose calls running concurrently on the same agent       *)
(* instance, under every interleaving at their awaits, each call's         *)
(* conversation and trace hold only what that call's own model responses   *)
(* and tool calls produced: the trace is the records of its own completed  *)
(* tool calls, the conversation its own query, its own assistant messages  *)
(* and the results of its own tool calls, and its result carries its own   *)
(* trace and no record of the other call.                                  *)
(***************************************************************************)
C23_CallsShareNoConversationOrTrace ==
    \A r \in RequestIds :
        LET c == requests[r] IN
        Posted(r) =>
            /\ ToolNamesOf(c.tool_executions) = NamesOf(Completed(c))
            /\ \A k \in 1..Len(c.messages) :
                  /\ c.messages[k].role = "user" => c.messages[k].content = Queries[r]
                  /\ c.messages[k].role = "assistant" =>
                        c.messages[k].tool_calls \in ToolCallMessages(c.responses)
                  /\ c.messages[k].role = "tool" =>
                        /\ c.messages[k].tool_call_id.request = r
                        /\ c.messages[k].tool_call_id \in IdsOf(Completed(c))
            /\ c.outcome.kind = "result" =>
                  /\ c.outcome.result.tools_executed = c.tool_executions
                  /\ c.outcome.result.request_id = r
                  /\ c.outcome.result.query = Queries[r]

\* both calls run on the OpenAI agent, each has one tool call behind it and
\* awaits its second, and the two asked for different tools
C23_Witness ==
    /\ requests["req_1"].agent = "openai"
    /\ requests["req_2"].agent = "openai"
    /\ requests["req_1"].pc = "tool"
    /\ requests["req_2"].pc = "tool"
    /\ Len(requests["req_1"].tool_executions) = 1
    /\ Len(requests["req_2"].tool_executions) = 1
    /\ NamesOf(requests["req_1"].executed) = <<"query_metrics", "query_logs">>
    /\ NamesOf(requests["req_2"].executed) = <<"query_metrics", "query_metrics">>

(***************************************************************************)
(* C24: the tool listing is a static enumeration of exactly two tools,     *)
(* query_logs then query_metrics, whatever the requests in progress, and   *)
(* its set of names equals the set of names in the agent's registry and    *)
(* in the schema set given to the model.                                   *)
(***************************************************************************)
C24_ListingNamesTheRegisteredTools ==
    Listed =>
        /\ DOMAIN tool_listing = {"tools"}
        /\ NamesOf(tool_listing.tools) = <<"query_logs", "query_metrics">>
        /\ IdsOfNames(tool_listing.tools) = tools
        /\ IdsOfNames(tool_listing.tools) = IdsOfNames(function_schemas)

\* the listing was asked for while a diagnose call was awaiting a tool
C24_Witness ==
    /\ Listed
    /\ Len(tool_listing.tools) = 2
    /\ \E r \in RequestIds : requests[r].pc = "tool"

(***************************************************************************)
(* C25: result assembly is a pure function of the terminal state and the   *)
(* trace: assembling again from the same terminal text and the same trace, *)
(* at another time and under another request id, gives the same            *)
(* tools_executed and the same analysis; only timestamp, request_id and    *)
(* processing_time_ms may differ.                                          *)
(***************************************************************************)
C25_AssemblyIsPure ==
    Returned =>
        \A now \in {clock, clock + 7} : \A rid \in RequestIds :
            LET again == DiagnosisResultOf(agent, rid, Request.query, start_time,
                                           final_response, tool_executions, now)
            IN /\ again.tools_executed = outcome.result.tools_executed
               /\ again.analysis = outcome.result.analysis
               /\ DOMAIN again = DOMAIN outcome.result
               /\ \A k \in DOMAIN again \ {"timestamp", "request_id",
                                           "processing_time_ms"} :
                     again[k] = outcome.result[k]

\* a result with two records in its trace, and a second assembly of it that
\* differs from it in timestamp, request id and processing time
C25_Witness ==
    /\ Returned
    /\ Len(outcome.result.tools_executed) = 2
    /\ LET again == DiagnosisResultOf(agent, "req_2", Request.query, start_time,
                                      final_response, tool_executions, clock + 7)
       IN /\ again.timestamp # outcome.result.timestamp
          /\ again.request_id # outcome.result.request_id
          /\ again.processing_time_ms # outcome.result.processing_time_ms
          /\ again.tools_executed = outcome.result.tools_executed

(***************************************************************************)
(* C26: LangChainDiagnosisAgent.diagnose and DiagnosisAgent.diagnose       *)
(* implement the same logic: fed the same sequence of model responses      *)
(* (texts, tool names and argument mappings) and served by the same tools, *)
(* the two calls end after the same number of responses with the same kind *)
(* of outcome (result or error), and two results have the same analysis,   *)
(* the same status and the same sequence of tool names in tools_executed.  *)
(***************************************************************************)
C26_AgentsAgree ==
    \A r1, r2 \in RequestIds :
        LET c == requests[r1]
            d == requests[r2]
        IN (/\ c.agent = "openai" /\ d.agent = "langchain"
            /\ c.pc = "done" /\ d.pc = "done"
            /\ FedAlike(c, d) \/ FedAlike(d, c))
           => /\ Len(c.responses) = Len(d.responses)
              /\ c.outcome.kind = d.outcome.kind
              /\ c.outcome.kind = "result" =>
                    /\ c.outcome.result.analysis = d.outcome.result.analysis
                    /\ c.outcome.result.status = d.outcome.result.status
                    /\ ToolNamesOf(c.outcome.result.tools_executed)
                          = ToolNamesOf(d.outcome.result.tools_executed)

(***************************************************************************)
(* C27: when every awaited model call and every awaited tool call          *)
(* eventually returns or raises, and every model response lists finitely   *)
(* many tool calls, every diagnose call eventually ends, in exactly one    *)
(* of: the model's text returned, the sentinel returned, or a              *)
(* request-level error; and once ended it stays ended that way.            *)
(***************************************************************************)
C27_DiagnoseEventuallyEnds ==
    <>[](pc = "done" /\ Ended)

\* a call that used all five consultations and ended with the sentinel
C27_Witness ==
    /\ pc = "done"
    /\ Exhausted
    /\ Consultations = 5
    /\ AllRequestedTools

(***************************************************************************)
(* C28: within one model turn that requests several tools, the tools run   *)
(* strictly one after another in the order the model listed them: when     *)
(* call i+1 of the turn is awaited, the results of calls 1..i of the turn  *)
(* are already in the conversation, in that order; and when the next       *)
(* model consultation starts, the tool-result messages of all calls of the *)
(* turn are in the conversation, in the order listed.                      *)
(***************************************************************************)
C28_ToolsRunInListedOrder ==
    /\ executed = SubSeq(Requested(responses), 1, Len(executed))
    /\ pc = "tool" =>
          /\ tool_calls = responses[Len(responses)].tool_calls
          /\ executed[Len(executed)] = tool_calls[call_idx]
          /\ \A k \in 1..Len(TurnResults(messages)) :
                TurnResults(messages)[k].role = "tool"
          /\ CallIdsOf(TurnResults(messages)) = ListedIds(tool_calls, call_idx - 1)
    /\ (pc = "llm" /\ iteration > 1) =>
          /\ tool_calls = responses[Len(responses)].tool_calls
          /\ \A k \in 1..Len(TurnResults(messages)) :
                TurnResults(messages)[k].role = "tool"
          /\ CallIdsOf(TurnResults(messages)) = ListedIds(tool_calls, Len(tool_calls))

\* the second consultation starts after a turn that listed two tools, and
\* both results are in the conversation
C28_Witness ==
    /\ pc = "llm"
    /\ iteration = 2
    /\ Len(tool_calls) = 2
    /\ NamesOf(tool_calls) = <<"query_logs", "query_metrics">>
    /\ Len(TurnResults(messages)) = 2

(***************************************************************************)
(* C29: every tool-result message in the conversation carries the call_id  *)
(* of the tool-call request that produced it, comes after the assistant    *)
(* message containing that request, and has as content the (JSON text of   *)
(* the) result's data when the tool succeeded and of an empty mapping when *)
(* it failed: the error text is not passed to the model.                   *)
(***************************************************************************)
C29_ToolMessageCarriesIdAndData ==
    /\ Len(ToolResults(messages)) = Len(tool_executions)
    /\ \A k \in 1..Len(messages) :
          messages[k].role = "tool" => AskedBefore(messages, k)
    /\ \A j \in 1..Len(ToolResults(messages)) :
          LET msg == ToolResults(messages)[j]
              did == execute(Awaited(j).name, Awaited(j).args)
          IN /\ msg.tool_call_id = Awaited(j).id
             /\ ~did.raised => msg.content = json_dumps(did.value)
             /\ did.raised =>
                   /\ msg.content = json_dumps(EmptyDict)
                   /\ IsErrorRecord(tool_executions[j])

\* a turn asked for a tool that failed and one that succeeded: the first
\* message has the empty mapping as content, the second the data
C29_Witness ==
    /\ Len(ToolResults(messages)) = 2
    /\ IsErrorRecord(tool_executions[1])
    /\ ToolResults(messages)[1].content = json_dumps(EmptyDict)
    /\ ~IsErrorRecord(tool_executions[2])
    /\ ToolResults(messages)[2].content # json_dumps(EmptyDict)
    /\ ToolResults(messages)[1].tool_call_id # ToolResults(messages)[2].tool_call_id

(***************************************************************************)
(* C30: the conversation starts as exactly [system message, user message   *)
(* with the raw query] and is append-only during one diagnose call: at     *)
(* every step the earlier conversation is a prefix of the later one, the   *)
(* only messages ever added are tool-calling assistant messages and        *)
(* tool-result messages, and the final answer is not appended.             *)
(***************************************************************************)
C30_ConversationAppendOnly ==
    [][/\ pc = "start" => messages' = SeedConversation
       /\ pc # "start" =>
             /\ IsPrefix(messages, messages')
             /\ IsPrefix(SeedConversation, messages')
             /\ \A k \in (Len(messages) + 1)..Len(messages') :
                   ToolCallingOrResult(messages'[k])
       /\ (pc = "llm" /\ AnswersText(responses'[Len(responses')])) =>
             messages' = messages]_vars

\* the model answered after two turns of tool calls: the conversation holds
\* the seed, two assistant messages and their results, and no answer
C30_Witness ==
    /\ Returned
    /\ Consultations = 3
    /\ AnswersText(responses[Len(responses)])
    /\ final_response # None
    /\ IsPrefix(SeedConversation, messages)
    /\ Len(messages) >= 6
    /\ messages[3].role = "assistant"
    /\ messages[Len(messages)].role = "tool"

(***************************************************************************)
(* C31: a diagnose call suspends only while awaiting the model and while   *)
(* awaiting a tool execution; from a tool's completion to the appending of *)
(* its trace record and of its tool-result message there is no suspension, *)
(* so at every suspension point of every call the number of trace records  *)
(* equals the number of tool-result messages in the conversation.          *)
(***************************************************************************)
C31_RecordsMatchMessagesAtSuspension ==
    \A r \in RequestIds :
        /\ requests[r].pc \in {"idle", "llm", "tool", "done"}
        /\ requests[r].pc \in {"llm", "tool"} =>
              Len(requests[r].tool_executions)
                 = Len(ToolResults(requests[r].messages))

\* one call awaits its second tool with one record and one tool-result
\* message, while the other awaits the model with two of each
C31_Witness ==
    /\ requests["req_1"].pc = "tool"
    /\ Len(requests["req_1"].tool_executions) = 1
    /\ Len(ToolResults(requests["req_1"].messages)) = 1
    /\ requests["req_2"].pc = "llm"
    /\ Len(requests["req_2"].tool_executions) = 2
    /\ Len(ToolResults(requests["req_2"].messages)) = 2

(***************************************************************************)
(* C32: for any argument mapping the model supplies for a registered tool  *)
(* (unknown parameter names, out-of-range values such as limit 0), in both *)
(* agents the arguments are checked by the tool behind the wrapper: the    *)
(* call yields a successful or failed trace record and diagnose does not   *)
(* abort.  Stated for the service without INFO logging, where the log      *)
(* call of C36 cannot interfere: a diagnose call that was asked only for   *)
(* registered tools ends in an error only when the model call failed, and  *)
(* every tool call it was asked for before its end has a trace record.     *)
(***************************************************************************)
C32_ArgumentsCheckedByTheTool ==
    \A r \in RequestIds :
        LET c == requests[r] IN
        (/\ ~info_enabled
         /\ c.pc = "done"
         /\ \A k \in 1..Len(Requested(c.responses)) :
               Requested(c.responses)[k].name \in tools)
        => /\ c.outcome.kind = "error" => c.outcome.error = OracleFailure
           /\ c.outcome.kind = "result" =>
                 Len(c.outcome.result.tools_executed) = Len(Requested(c.responses))

(***************************************************************************)
(* C33: each trace record is derived only from the tool name and that      *)
(* call's Tool Execution Result: a failed result gives result_summary      *)
(* "Error: <error>" and data_points 0; a successful query_logs result      *)
(* gives "Found N logs" and data_points N with N = total_logs; a           *)
(* successful query_metrics result gives "Retrieved K metric types" with   *)
(* K the number of metric keys, and data_points equal to the result's      *)
(* data_points; execution_time_ms is copied from the result.               *)
(***************************************************************************)
C33_RecordDerivedFromResult ==
    \A j \in 1..Len(tool_executions) :
        LET rec == tool_executions[j]
            result == run(Awaited(j).name, Awaited(j).args, 0, 1)
        IN /\ DOMAIN rec = {"tool_name", "execution_time_ms", "result_summary",
                            "data_points"}
           /\ rec.tool_name = Awaited(j).name
           /\ rec.execution_time_ms = result.execution_time_ms
           /\ ~result.success =>
                 /\ rec.result_summary = [fmt |-> "Error: {}", error |-> result.error]
                 /\ rec.data_points = 0
           /\ (result.success /\ rec.tool_name = "query_logs") =>
                 /\ rec.result_summary = [fmt |-> "Found {} logs",
                                          total_logs |-> result.data.total_logs]
                 /\ rec.data_points = result.data.total_logs
           /\ (result.success /\ rec.tool_name = "query_metrics") =>
                 /\ rec.result_summary =
                       [fmt |-> "Retrieved {} metric types",
                        metrics_count |-> Cardinality(result.data.metrics)]
                 /\ rec.data_points = result.data.data_points

\* a trace with a record of a failed call, of a logs call and of a metrics
\* call
C33_Witness ==
    /\ Len(tool_executions) = 3
    /\ \E j \in 1..3 : IsErrorRecord(tool_executions[j])
    /\ \E j \in 1..3 : tool_executions[j].result_summary.fmt = "Found {} logs"
    /\ \E j \in 1..3 :
          /\ tool_executions[j].result_summary.fmt = "Retrieved {} metric types"
          /\ tool_executions[j].data_points
                # tool_executions[j].result_summary.metrics_count

(***************************************************************************)
(* C34: the schema given to the model agrees with each tool's parameter    *)
(* contract: the schema's time_range enum is exactly the set of tokens     *)
(* parse_time_range accepts, its parameter names and defaults are exactly  *)
(* those of the tool's execute, and every argument mapping the schema      *)
(* admits is accepted by the named tool: execute raises no validation      *)
(* error for it (it raises only when the live provider does).              *)
(***************************************************************************)
C34_SchemaAgreesWithTools ==
    /\ \A i \in 1..Len(function_schemas) :
          LET schema == function_schemas[i] IN
          /\ schema.properties.time_range.enum = DOMAIN TIME_RANGE_MINUTES
          /\ \A tr \in TimeRanges :
                tr \in schema.properties.time_range.enum <=> parse_time_range(tr).ok
          /\ DOMAIN schema.properties = DOMAIN SignatureOf(schema.name)
          /\ \A k \in DOMAIN schema.properties :
                schema.properties[k].default = SignatureOf(schema.name)[k]
    /\ (ToolReturned /\ SchemaAdmits(invocation.tool, invocation.kwargs)) =>
          /\ execute_outcome.raised => ProviderRaised
          /\ ~execute_outcome.raised => run_result.success

\* the Logs tool was given a mapping the schema admits, with a limit of 0
\* and the longest window, and accepted it
C34_Witness ==
    /\ ExecuteGave
    /\ invocation.tool = "query_logs"
    /\ DOMAIN invocation.kwargs = DOMAIN LogsQueryTool_signature
    /\ SchemaAdmits("query_logs", invocation.kwargs)
    /\ invocation.kwargs.limit = 0
    /\ invocation.kwargs.time_range = "24h"
    /\ run_result.success

(***************************************************************************)
(* C35: executing a tool, succeeding or failing, with any arguments,       *)
(* leaves the tool instance's state unchanged: the name and the provider   *)
(* handle of both instances are the same after every step as before it,    *)
(* so what a call gives is what execute gives for that call's arguments,   *)
(* draws and provider behaviour alone, whatever calls preceded it.         *)
(***************************************************************************)
C35_ExecutionLeavesTheInstanceAlone ==
    [][/\ self_name' = self_name
       /\ gcp_client' = gcp_client
       /\ use_mock_data' = use_mock_data
       /\ (tool_pc = "idle" /\ tool_pc' = "returned") =>
             /\ execute_outcome' =
                   (IF invocation'.tool = "query_logs"
                    THEN LogsQueryTool_execute(invocation'.kwargs, invocation'.env)
                    ELSE MetricsQueryTool_execute(invocation'.kwargs,
                                                  invocation'.env))
             /\ run_result' = run_envelope(execute_outcome', clock, clock')]_vars

\* a second call of a live-backed instance, after an earlier call, in which
\* the provider raised: the handle is still there
C35_Witness ==
    /\ ExecuteRaised
    /\ clock = 2
    /\ ~use_mock_data
    /\ gcp_client[invocation.tool] = "client"
    /\ "provider" \in DOMAIN invocation.env
    /\ self_name[invocation.tool] \in {"logs_query", "metrics_query"}

(***************************************************************************)
(* C36: in DiagnosisAgent.diagnose with INFO-level logging enabled, the    *)
(* log statement for a requested tool call cannot raise: diagnose never    *)
(* ends with the KeyError of the log statement, and it never ends with a   *)
(* requested call for a registered tool (with well-formed arguments) left  *)
(* unexecuted and without a trace record.                                  *)
(***************************************************************************)
C36_LogStatementCannotRaise ==
    LET requested == Requested(responses) IN
    (agent = "openai" /\ info_enabled /\ pc = "done") =>
        /\ outcome.kind = "error" => outcome.error.type # "KeyError"
        /\ Len(executed) < Len(requested) =>
              ~(/\ requested[Len(executed) + 1].name \in tools
                /\ requested[Len(executed) + 1].valid_json)
        /\ Len(tool_executions) = Len(executed)

(***************************************************************************)
(* C37: the service_name and time_range passed to diagnose appear in the   *)
(* system message and nowhere else: every tool call is executed with       *)
(* exactly the arguments the model supplied, a parameter the model omits   *)
(* takes the tool's own default (service_name "all", time_range "15m",     *)
(* severity "all", limit 100, metric_type "all"), and so each tool result  *)
(* and each trace record is what the tool gives for the model's arguments  *)
(* completed by those defaults, whatever the request carried.              *)
(***************************************************************************)
C37_RequestContextOnlyInSystemMessage ==
    \A r \in RequestIds :
        Posted(r) =>
            LET c == requests[r]
                done == Completed(c)
                results == ToolResults(c.messages)
            IN /\ c.messages[1].content =
                     system_prompt(Contexts[r].service_name, Contexts[r].time_range)
               /\ Len(results) = Len(done)
               /\ Len(c.tool_executions) = Len(done)
               /\ \A k \in 1..Len(done) :
                     LET args == done[k].args
                         filled == args @@ SignatureOf(done[k].name)
                         given == execute(done[k].name, filled)
                     IN /\ results[k].tool_call_id = done[k].id
                        /\ results[k].content =
                              json_dumps(IF given.raised THEN EmptyDict
                                                         ELSE given.value)
                        /\ c.tool_executions[k].data_points =
                              _count_data_points(run_envelope(given, 0, 1))
                        /\ ~given.raised =>
                              /\ given.value.service =
                                    Get(args, "service_name", "all")
                              /\ given.value.time_range =
                                    Get(args, "time_range", "15m")
                              /\ done[k].name = "query_metrics" =>
                                    given.value.metric_type =
                                        Get(args, "metric_type", "all")
                              /\ done[k].name = "query_logs" =>
                                    given.value.total_logs =
                                        execute("query_logs",
                                                [limit |-> Get(args, "limit", 100)]
                                               ).value.total_logs

\* both requests, which carry a service and windows other than the tools'
\* defaults, had query_metrics run with no arguments: each got the result
\* for service "all" over 15 minutes
C37_Witness ==
    \A r \in RequestIds :
        /\ Contexts[r].time_range # "15m"
        /\ Contexts[r].service_name # "all"
        /\ \E k \in 1..Len(Completed(requests[r])) :
              /\ Completed(requests[r])[k].name = "query_metrics"
              /\ Completed(requests[r])[k].args = EmptyDict
              /\ ToolResults(requests[r].messages)[k].content.json.service = "all"
              /\ ToolResults(requests[r].messages)[k].content.json.time_range = "15m"

(***************************************************************************)
(* C38: in every result of the Logs tool, for every limit and every        *)
(* filter combination, from mock data or from the provider, total_logs is  *)
(* the length of the returned logs sequence, so the data_points of a trace *)
(* record made from that result is the number of entries returned.         *)
(***************************************************************************)
C38_TotalLogsIsTheNumberReturned ==
    (ExecuteGave /\ invocation.tool = "query_logs") =>
        /\ execute_outcome.value.total_logs = Len(execute_outcome.value.logs)
        /\ run_result.data.total_logs = Len(run_result.data.logs)
        /\ _count_data_points(run_result) = Len(run_result.data.logs)
        /\ RecordExecution(<<>>, "query_logs", run_result)[1].data_points
              = Len(run_result.data.logs)

\* a mock-backed query whose limit (3) cut the number drawn, with a severity
\* filter: three entries returned and reported
C38_Witness ==
    /\ ExecuteGave
    /\ invocation.tool = "query_logs"
    /\ MockBacked("query_logs")
    /\ Arg("limit", 100) = 3
    /\ Arg("severity", "all") = "critical"
    /\ invocation.env.draw.randint > 3
    /\ Len(run_result.data.logs) = 3
    /\ run_result.data.total_logs = 3

====
